---------------------------- MODULE Spec2Model ----------------------------
(***************************************************************************)
(* A model of the harvest pipeline engine: the Id allocator                *)
(* (core/src/id.rs), the edit Organizer and its Edits (core/src/edit.rs),  *)
(* the tool runner (translate/src/runner.rs), the scheduler                *)
(* (translate/src/scheduler.rs) and the driver loop (translate/src/lib.rs).*)
(*                                                                         *)
(* Three specifications share the module:                                  *)
(*   SpecId   concurrent callers of new_array_testable on one AtomicU64;   *)
(*   Spec     clients of two Organizers calling the Organizer/Edit API;    *)
(*   SpecRun  the driver loop of transpile with its worker threads.        *)
(***************************************************************************)
EXTENDS Integers, Sequences, FiniteSets, TLC

VARIABLES
    \* ---- Id allocator (core/src/id.rs) ----
    highest_id,     \* the AtomicU64 HIGHEST_ID
    idcall,         \* per caller thread: the new_array_testable call in progress
    handed,         \* history: how many times each id value was returned to a caller
    requested,      \* history: total number of ids requested (sum of LEN)
    aborted,        \* the process has called abort()
    \* ---- Organizer and Edit (core/src/edit.rs) ----
    heap,           \* the HarvestIR values behind each Arc<HarvestIR>
    org_ir,         \* Organizer.ir: per organizer, the Arc it holds
    in_use,         \* Organizer.shared.in_use: per organizer, the set of ids in use
    edits,          \* every Edit: its shared (organizer), its writable map
    snaps,          \* Arc<HarvestIR> clones handed out by snapshot()
    ir0,            \* history: the IR each organizer was constructed with
    commits,        \* history: per organizer, the writes of each successful apply_edit
    last,           \* history: the last API call and what it returned
    budget,         \* the number of API calls the behaviour may still make
    \* ---- Scheduler, ToolRunner and driver loop (translate/src) ----
    queue,          \* Scheduler.queued_invocations
    taken,          \* next_invocations: the tools taken from the queue, not yet offered
    dpc,            \* where the driver thread is in transpile's loop
    snapshot,       \* transpile's local `snapshot`
    invocations,    \* ToolRunner.invocations, keyed by the worker thread
    chan,           \* the completion channel (sender -> receiver)
    ir_version,     \* ToolRunner.ir_version
    worker,         \* each worker thread: its position, Edit, snapshot and result
    tool_run_counts, \* diagnostics Shared.tool_run_counts
    \* ---- history of the diagnostics and of the scheduler ----
    tool_runs,      \* history: every call of start_tool_run and what it produced
    pass,           \* history: the current next_invocations pass and its offers
    ir_dir,         \* the `ir` directory: what report_ir_version has written
    logging,        \* the Collector, the threads' tracing dispatchers and the messages files
    \* ---- Dir::get (fs/src/dir/mod.rs) ----
    lookup          \* one call of Dir::get: its Dir, its path and get_inner's locals

idVars == <<highest_id, idcall, handed, requested, aborted>>
orgVars == <<heap, org_ir, in_use, edits, snaps, ir0, commits, last, budget>>
runVars == <<queue, taken, dpc, snapshot, invocations, chan, ir_version, worker,
             tool_run_counts>>
histVars == <<tool_runs, pass, ir_dir, logging, lookup>>
vars == <<idVars, orgVars, runVars, histVars>>

None == "None"

\* No call of Dir::get is in progress.
NoLookup == [result |-> "idle"]

(***************************************************************************)
(* Id allocator                                                            *)
(***************************************************************************)

\* The largest value of the counter's integer type (u64 in the source,
\* scaled down so that exhaustion is reachable).
U64_MAX == 7
\* The largest LEN a caller passes to new_array.
MaxLen == 2
\* Cap on the total number of ids requested in one behaviour.
MaxRequested == 9

IdThreads == {"one_at_a_time", "chunks"}

IdleCall == [pc |-> "idle", prev |-> 0, len |-> 0, out |-> <<>>]

\* Mutant: a fetch_add whose addition is lost (a load without the store).
WrappingAdd_Lost(a, n) == a

\* AtomicU64::fetch_add wraps around on overflow.
WrappingAdd(a, n) == (a + n) % (U64_MAX + 1)

\* prev.checked_add(1).and_then(NonZeroU64::new); Option<NonZeroU64> keeps None
\* as 0.
CheckedNext(prev) == IF prev + 1 > U64_MAX THEN 0 ELSE prev + 1

\* The closure of [(); LEN].map: the i-th element built from the value fetched.
RECURSIVE MapIds(_, _)
MapIds(prev, len) ==
    IF len = 0 THEN <<>>
    ELSE LET num == CheckedNext(prev)
         IN  IF num = 0 THEN <<0>>
             ELSE <<num>> \o MapIds(num, len - 1)

Overflowed(ids) == \E i \in DOMAIN ids : ids[i] = 0

InitId ==
    /\ highest_id = 0
    /\ idcall = [t \in IdThreads |-> IdleCall]
    /\ handed = [i \in 1..U64_MAX |-> 0]
    /\ requested = 0
    /\ aborted = FALSE

\* new_array_testable, line 60: highest_id.fetch_add(LEN, Relaxed).
FetchAdd(t, len) ==
    /\ ~aborted
    /\ idcall[t].pc = "idle"
    /\ requested + len <= MaxRequested
    /\ idcall' = [idcall EXCEPT ![t] = [pc |-> "map", prev |-> highest_id,
                                         len |-> len, out |-> <<>>]]
    /\ highest_id' = WrappingAdd(highest_id, len)
    /\ requested' = requested + len
    /\ UNCHANGED <<handed, aborted>>
    /\ UNCHANGED <<orgVars, runVars>>

\* new_array_testable, lines 61-73: build the array, or abort on overflow.
MapAndReturn(t) ==
    /\ ~aborted
    /\ idcall[t].pc = "map"
    /\ LET ids == MapIds(idcall[t].prev, idcall[t].len)
       IN  IF Overflowed(ids)
           THEN /\ aborted' = TRUE
                /\ UNCHANGED <<idcall, handed>>
           ELSE /\ idcall' = [idcall EXCEPT ![t] = [pc |-> "idle", prev |-> 0,
                                                    len |-> 0, out |-> ids]]
                /\ handed' = [i \in DOMAIN handed |->
                                handed[i] + Cardinality({k \in DOMAIN ids : ids[k] = i})]
                /\ UNCHANGED aborted
    /\ UNCHANGED <<highest_id, requested>>
    /\ UNCHANGED <<orgVars, runVars>>

NextId ==
    \/ \E t \in IdThreads, len \in 0..MaxLen : FetchAdd(t, len) /\ UNCHANGED histVars
    \/ \E t \in IdThreads : MapAndReturn(t) /\ UNCHANGED histVars

(***************************************************************************)
(* Organizer and Edit                                                       *)
(***************************************************************************)

\* Cap on the ids the behaviours of Spec allocate (the counter is unbounded).
MaxId == 3
\* Cap on the API calls of one behaviour of SpecSnap.
MaxSnapCalls == 7
\* Cap on the API calls of one behaviour of Spec.
MaxCalls == 5

Orgs == {"A", "B"}
\* The tool invocations queued by the driver; each runs on its own worker thread.
ToolIds == {"t1", "t2"}
NoWorker == [pc |-> "idle", edit |-> 0, snap |-> 0, mw |-> {}, res |-> None, out |-> None,
             handles |-> 0]

\* The threads that log, "main" being the one that calls Collector::initialize.
LogThreads == {"main", "w1"}

\* The tool runs whose messages files are followed; file 0 is the global
\* messages file of the diagnostics directory.
LogRuns == {1, 2}
LogFiles == {0} \cup LogRuns

\* Before Collector::initialize: no dispatcher on any thread, no file written.
NoLogging ==
    [collector |-> "none",
     reporters |-> 0,
     sent |-> FALSE,
     started |-> 0,
     dispatch |-> [th \in LogThreads |-> <<>>],
     files |-> [f \in LogFiles |-> <<>>],
     logged |-> [th \in LogThreads |-> 0]]

\* No next_invocations pass has been started.
NoPass == [start |-> <<>>, offers |-> <<>>, result |-> None]

\* The driver loop and its workers at rest (nothing queued, nothing spawned).
RunIdle ==
    /\ queue = <<>>
    /\ taken = <<>>
    /\ dpc = "done"
    /\ snapshot = 0
    /\ invocations = {}
    /\ chan = <<>>
    /\ ir_version = 0
    /\ worker = [t \in ToolIds |-> NoWorker]
    /\ tool_run_counts = [t \in ToolIds |-> 0]
    /\ tool_runs = {}
    /\ pass = NoPass
    /\ ir_dir = {}
    /\ logging = NoLogging
    /\ lookup = NoLookup
Reprs == {"r1", "r2"}
\* The Edits and the snapshot holders that can exist at one time.
EditIds == {1, 2}
SnapSlots == {1, 2}
Ids == 1..MaxId

EmptyIR == [id \in {} |-> None]
NoEdit == [live |-> FALSE, shared |-> None, writable |-> EmptyIR, declared |-> {}]
NoSnap == [h |-> 0, org |-> None, k |-> 0]
NoCall == [op |-> "none", org |-> None, edit |-> 0, ids |-> {}, result |-> None]

\* The IRs the two Organizers are constructed with (Organizer::with_harvest_ir):
\* ids 1 and 2 come from Id::new_array, A holds both and B holds the first.
InitIR == [o \in Orgs |-> [id \in (IF o = "A" THEN {1, 2} ELSE {1}) |-> "r1"]]

\* Organizer.ir dereferenced.
IR(o) == heap[org_ir[o]]

\* HarvestIR::contains_id
contains_id(ir, id) == id \in DOMAIN ir

\* Arc::strong_count of the HarvestIR behind handle h.
StrongCount(h) ==
    Cardinality({o \in Orgs : org_ir[o] = h}) + Cardinality({s \in SnapSlots : snaps[s].h = h})
    + Cardinality({t \in ToolIds : worker[t].snap = h}) + (IF snapshot = h THEN 1 ELSE 0)

\* Dropping one Arc of the value behind h: the value goes with its last Arc.
DropArc(hp, h) ==
    IF StrongCount(h) = 1 THEN [x \in DOMAIN hp \ {h} |-> hp[x]] ELSE hp

FreeHandle == CHOOSE h \in 1..(Cardinality(DOMAIN heap) + 1) : h \notin DOMAIN heap

\* Mutant: make_mut that always hands out the value in place.
MakeMutClones_Never(h) == FALSE

\* Arc::make_mut clones the value when the Arc is shared, and otherwise
\* hands out the value in place.
MakeMutClones(h) == StrongCount(h) > 1

\* Mutant: apply_edit without the identity check.
PtrEq_Always(o, e) == TRUE

\* Arc::ptr_eq(&self.shared, &edit.shared)
PtrEq(o, e) == edits[e].shared = o

\* Mutant: new_edit that never looks at in_use.
NewEditOutcome_NoInUseCheck(ir, inuse, might_write) ==
    IF \E id \in might_write : ~contains_id(ir, id) THEN "UnknownId" ELSE "Ok"

\* Mutant: new_edit that checks in_use before the IR.
NewEditOutcome_InUseFirst(ir, inuse, might_write) ==
    IF \E id \in might_write : id \in inuse THEN "IdInUse"
    ELSE IF \E id \in might_write : ~contains_id(ir, id) THEN "UnknownId"
    ELSE "Ok"

\* Mutant: new_edit that never looks at the IR.
NewEditOutcome_SkipUnknown(ir, inuse, might_write) ==
    IF \E id \in might_write : id \in inuse THEN "IdInUse" ELSE "Ok"

\* new_edit, lines 52-58: the two checks, UnknownId first.
NewEditOutcome(ir, inuse, might_write) ==
    IF \E id \in might_write : ~contains_id(ir, id) THEN "UnknownId"
    ELSE IF \E id \in might_write : id \in inuse THEN "IdInUse"
    ELSE "Ok"

\* Mutant: new_edit that does not mark the declared ids as in use.
MarkInUse_Forget(inuse, might_write) == inuse

\* new_edit, lines 59-61: mark every id of might_write as in use.
MarkInUse(inuse, might_write) == inuse \cup might_write

\* new_edit, line 64: every declared id maps to no pending write.
NewWritable(might_write) == [id \in might_write |-> None]

\* Mutant: an insert that keeps the value already stored (entry().or_insert).
Insert_KeepOld(ir, id, r) ==
    [x \in DOMAIN ir \cup {id} |-> IF x \in DOMAIN ir THEN ir[x] ELSE r]

\* BTreeMap::insert
Insert(ir, id, r) == [x \in DOMAIN ir \cup {id} |-> IF x = id THEN r ELSE ir[x]]

\* Mutant: apply_edit that replaces representations but never adds one.
ApplyWrites_NoInsert(ir, writable) ==
    [id \in DOMAIN ir |->
        IF id \in DOMAIN writable /\ writable[id] # None THEN writable[id] ELSE ir[id]]

\* apply_edit, lines 35-39: for each writable id with a pending write, insert it.
RECURSIVE ApplyWrites(_, _)
ApplyWrites(ir, writable) ==
    IF DOMAIN writable = {} THEN ir
    ELSE LET id == CHOOSE x \in DOMAIN writable : TRUE
             rest == [x \in DOMAIN writable \ {id} |-> writable[x]]
         IN  ApplyWrites(IF writable[id] # None THEN Insert(ir, id, writable[id]) ELSE ir,
                         rest)

\* Mutant: a drop that releases only the ids with a pending write.
Release_OnlyPending(inuse, writable) ==
    inuse \ {id \in DOMAIN writable : writable[id] # None}

\* Mutant: an Edit that goes away leaves its ids in use.
Release_Keep(inuse, writable) == inuse

\* Mutant: dropping an Edit clears the whole in-use set.
Release_All(inuse, writable) == {}

\* impl Drop for Edit: remove every writable id from in_use.
Release(inuse, writable) == inuse \ DOMAIN writable

\* Mutant: try_write_id that inserts the id when the Edit does not hold it.
TryWrite_Insert(writable, id, r) == [x \in DOMAIN writable \cup {id} |-> IF x = id THEN r ELSE writable[x]]

\* Edit::try_write_id: HashMap::get_mut(&id).map(|v| *v = Some(r)).ok_or(NotWritable)
TryWrite(writable, id, r) ==
    IF id \in DOMAIN writable THEN [writable EXCEPT ![id] = r] ELSE writable

\* The pending writes of an Edit: the ids whose entry is Some(_).
Pending(writable) ==
    [id \in {x \in DOMAIN writable : writable[x] # None} |-> writable[id]]

\* Id::new() while the process runs on: fetch_add(1) and the value after it.
IdNew == CheckedNext(highest_id)

Call(op, o, e, ids, result) ==
    [op |-> op, org |-> o, edit |-> e, ids |-> ids, result |-> result]

FreeEdit == CHOOSE e \in EditIds : ~edits[e].live

Init ==
    /\ highest_id = 2
    /\ idcall = [t \in IdThreads |-> IdleCall]
    /\ handed = [i \in 1..U64_MAX |-> IF i <= 2 THEN 1 ELSE 0]
    /\ requested = 2
    /\ aborted = FALSE
    /\ ir0 = InitIR
    /\ org_ir = [o \in Orgs |-> IF o = "A" THEN 1 ELSE 2]
    /\ heap = [h \in {1, 2} |-> IF h = 1 THEN ir0["A"] ELSE ir0["B"]]
    /\ in_use = [o \in Orgs |-> {}]
    /\ edits = [e \in EditIds |-> NoEdit]
    /\ snaps = [s \in SnapSlots |-> NoSnap]
    /\ commits = [o \in Orgs |-> <<>>]
    /\ last = NoCall
    /\ budget = MaxCalls
    /\ RunIdle

\* Organizer::new_edit
NewEdit(o, might_write) ==
    /\ budget > 0
    /\ budget' = budget - 1
    /\ \E e \in EditIds : ~edits[e].live
    /\ LET outcome == NewEditOutcome(IR(o), in_use[o], might_write)
           e == FreeEdit
       IN  IF outcome = "Ok"
           THEN /\ in_use' = [in_use EXCEPT ![o] = MarkInUse(in_use[o], might_write)]
                /\ edits' = [edits EXCEPT ![e] =
                               [live |-> TRUE, shared |-> o,
                                writable |-> NewWritable(might_write),
                                declared |-> might_write]]
                /\ last' = Call("new_edit", o, e, might_write, "Ok")
           ELSE /\ UNCHANGED <<in_use, edits>>
                /\ last' = Call("new_edit", o, 0, might_write, outcome)
    /\ UNCHANGED <<heap, org_ir, snaps, ir0, commits>>
    /\ UNCHANGED <<idVars, runVars>>

\* Edit::add_representation
AddRepresentation(e, r) ==
    /\ budget > 0
    /\ budget' = budget - 1
    /\ edits[e].live
    /\ highest_id < MaxId
    /\ LET id == IdNew
       IN  /\ highest_id' = WrappingAdd(highest_id, 1)
           /\ edits' = [edits EXCEPT ![e].writable = Insert(edits[e].writable, id, r)]
           /\ handed' = [handed EXCEPT ![id] = @ + 1]
           /\ last' = Call("add_representation", edits[e].shared, e, {id}, "Ok")
    /\ requested' = requested + 1
    /\ UNCHANGED <<idcall, aborted, runVars>>
    /\ UNCHANGED <<heap, org_ir, in_use, snaps, ir0, commits>>

\* Edit::new_id
NewId(e) ==
    /\ budget > 0
    /\ budget' = budget - 1
    /\ edits[e].live
    /\ highest_id < MaxId
    /\ LET id == IdNew
       IN  /\ highest_id' = WrappingAdd(highest_id, 1)
           /\ edits' = [edits EXCEPT ![e].writable = Insert(edits[e].writable, id, None)]
           /\ handed' = [handed EXCEPT ![id] = @ + 1]
           /\ last' = Call("new_id", edits[e].shared, e, {id}, "Ok")
    /\ requested' = requested + 1
    /\ UNCHANGED <<idcall, aborted, runVars>>
    /\ UNCHANGED <<heap, org_ir, in_use, snaps, ir0, commits>>

\* Edit::try_write_id
TryWriteId(e, id, r) ==
    /\ budget > 0
    /\ budget' = budget - 1
    /\ edits[e].live
    /\ edits' = [edits EXCEPT ![e].writable = TryWrite(edits[e].writable, id, r)]
    /\ last' = Call("try_write_id", edits[e].shared, e, {id},
                    IF id \in DOMAIN edits[e].writable THEN "Ok" ELSE "NotWritable")
    /\ UNCHANGED <<heap, org_ir, in_use, snaps, ir0, commits>>
    /\ UNCHANGED <<idVars, runVars>>

\* Organizer::apply_edit; the Edit is dropped when the call returns.
ApplyEdit(o, e) ==
    /\ budget > 0
    /\ budget' = budget - 1
    /\ edits[e].live
    /\ IF ~PtrEq(o, e)
       THEN /\ last' = Call("apply_edit", o, e, DOMAIN edits[e].writable, "WrongOrganizer")
            /\ UNCHANGED <<heap, org_ir, commits>>
       ELSE LET h == org_ir[o]
                h2 == IF MakeMutClones(h) THEN FreeHandle ELSE h
                ir == ApplyWrites(heap[h], edits[e].writable)
            IN  /\ heap' = [x \in DOMAIN heap \cup {h2} |-> IF x = h2 THEN ir ELSE heap[x]]
                /\ org_ir' = [org_ir EXCEPT ![o] = h2]
                /\ commits' = [commits EXCEPT ![o] = Append(@, Pending(edits[e].writable))]
                /\ last' = Call("apply_edit", o, e, DOMAIN edits[e].writable, "Ok")
    /\ in_use' = [in_use EXCEPT ![edits[e].shared] = Release(@, edits[e].writable)]
    /\ edits' = [edits EXCEPT ![e] = NoEdit]
    /\ UNCHANGED <<snaps, ir0>>
    /\ UNCHANGED <<idVars, runVars>>

\* impl Drop for Edit, for an Edit that was not applied.
DropEdit(e) ==
    /\ budget > 0
    /\ budget' = budget - 1
    /\ edits[e].live
    /\ in_use' = [in_use EXCEPT ![edits[e].shared] = Release(@, edits[e].writable)]
    /\ edits' = [edits EXCEPT ![e] = NoEdit]
    /\ last' = Call("drop", edits[e].shared, e, DOMAIN edits[e].writable, "Ok")
    /\ UNCHANGED <<heap, org_ir, snaps, ir0, commits>>
    /\ UNCHANGED <<idVars, runVars>>

\* Organizer::snapshot: a clone of the Arc, kept by holder s.
Snapshot(o, s) ==
    /\ budget > 0
    /\ budget' = budget - 1
    /\ snaps[s].h = 0
    /\ snaps' = [snaps EXCEPT ![s] = [h |-> org_ir[o], org |-> o, k |-> Len(commits[o])]]
    /\ last' = Call("snapshot", o, s, {}, "Ok")
    /\ UNCHANGED <<heap, org_ir, in_use, edits, ir0, commits>>
    /\ UNCHANGED <<idVars, runVars>>

\* A holder drops its snapshot; the value is freed with its last Arc.
DropSnapshot(s) ==
    /\ budget > 0
    /\ budget' = budget - 1
    /\ snaps[s].h # 0
    /\ snaps' = [snaps EXCEPT ![s] = NoSnap]
    /\ heap' = DropArc(heap, snaps[s].h)
    /\ last' = Call("drop_snapshot", snaps[s].org, s, {}, "Ok")
    /\ UNCHANGED <<org_ir, in_use, edits, ir0, commits>>
    /\ UNCHANGED <<idVars, runVars>>

Next ==
    \/ \E o \in Orgs, mw \in SUBSET Ids : NewEdit(o, mw) /\ UNCHANGED histVars
    \/ \E e \in EditIds, r \in Reprs : AddRepresentation(e, r) /\ UNCHANGED histVars
    \/ \E e \in EditIds : NewId(e) /\ UNCHANGED histVars
    \/ \E e \in EditIds, id \in Ids, r \in Reprs : TryWriteId(e, id, r) /\ UNCHANGED histVars
    \/ \E o \in Orgs, e \in EditIds : ApplyEdit(o, e) /\ UNCHANGED histVars
    \/ \E e \in EditIds : DropEdit(e) /\ UNCHANGED histVars
    \/ \E o \in Orgs : Snapshot(o, 1) /\ UNCHANGED histVars
    \/ DropSnapshot(1) /\ UNCHANGED histVars

Spec == Init /\ [][Next]_vars

\* One Organizer, its Edits and two snapshot holders.
InitSnap ==
    /\ highest_id = 2
    /\ idcall = [t \in IdThreads |-> IdleCall]
    /\ handed = [i \in 1..U64_MAX |-> IF i <= 2 THEN 1 ELSE 0]
    /\ requested = 2
    /\ aborted = FALSE
    /\ ir0 = InitIR
    /\ org_ir = [o \in Orgs |-> IF o = "A" THEN 1 ELSE 2]
    /\ heap = [h \in {1, 2} |-> IF h = 1 THEN ir0["A"] ELSE ir0["B"]]
    /\ in_use = [o \in Orgs |-> {}]
    /\ edits = [e \in EditIds |-> NoEdit]
    /\ snaps = [s \in SnapSlots |-> NoSnap]
    /\ commits = [o \in Orgs |-> <<>>]
    /\ last = NoCall
    /\ budget = MaxSnapCalls
    /\ RunIdle

\* The calls are those that succeed: new_edit over ids of the IR, try_write_id
\* over ids the Edit can write.
NextSnap ==
    \/ \E mw \in SUBSET DOMAIN IR("A") : NewEdit("A", mw) /\ UNCHANGED histVars
    \/ \E e \in EditIds, r \in Reprs : AddRepresentation(e, r) /\ UNCHANGED histVars
    \/ \E e \in EditIds : NewId(e) /\ UNCHANGED histVars
    \/ \E e \in EditIds, r \in Reprs : \E id \in DOMAIN edits[e].writable : TryWriteId(e, id, r) /\ UNCHANGED histVars
    \/ \E e \in EditIds : ApplyEdit("A", e) /\ UNCHANGED histVars
    \/ \E e \in EditIds : DropEdit(e) /\ UNCHANGED histVars
    \/ \E s \in SnapSlots : Snapshot("A", s) /\ UNCHANGED histVars
    \/ \E s \in SnapSlots : DropSnapshot(s) /\ UNCHANGED histVars

SpecSnap == InitSnap /\ [][NextSnap]_vars

(***************************************************************************)
(* Properties of the Organizer and its Edits                               *)
(***************************************************************************)

LiveEdits(o) == {e \in EditIds : edits[e].live /\ edits[e].shared = o}

\* C1: at every instant any two distinct live Edits of the same Organizer
\* have disjoint writable-id sets (declared ids and ids they allocated).
C1_DisjointWritable ==
    \A o \in Orgs : \A e1, e2 \in LiveEdits(o) :
        e1 # e2 => DOMAIN edits[e1].writable \cap DOMAIN edits[e2].writable = {}

\* Two live Edits of one Organizer, each holding a declared id, one of them
\* also an id it allocated itself.
C1_Witness ==
    \E o \in Orgs : \E e1, e2 \in LiveEdits(o) :
        /\ e1 # e2
        /\ edits[e1].declared # {}
        /\ edits[e2].declared # {}
        /\ DOMAIN edits[e1].writable # edits[e1].declared

\* C2: new_edit returns UnknownId whenever a requested id is absent from the
\* IR (also when another requested id is in use), IdInUse only when every
\* requested id is in the IR and one is claimed by a live Edit, and in both
\* error cases the in-use set is unchanged.
C2_NewEditErrors ==
    [][last'.op = "new_edit" =>
        LET o == last'.org
            mw == last'.ids
        IN  /\ (\E id \in mw : id \notin DOMAIN IR(o)) => last'.result = "UnknownId"
            /\ last'.result = "IdInUse" =>
                  /\ \A id \in mw : id \in DOMAIN IR(o)
                  /\ \E id \in mw : \E e \in LiveEdits(o) : id \in DOMAIN edits[e].writable
            /\ last'.result = "UnknownId" => \E id \in mw : id \notin DOMAIN IR(o)
            /\ last'.result \in {"UnknownId", "IdInUse"} => in_use' = in_use
    ]_vars

\* new_edit has just returned UnknownId for a request that also names an id
\* in use.
C2_Witness ==
    /\ last.op = "new_edit"
    /\ last.result = "UnknownId"
    /\ last.ids \cap in_use[last.org] # {}

\* C3: applying an Edit of Organizer A to another Organizer B fails with
\* WrongOrganizer and leaves B's IR and B's in-use set unchanged.
C3_WrongOrganizer ==
    [][(last'.op = "apply_edit" /\ edits[last'.edit].shared # last'.org) =>
        LET o == last'.org
        IN  /\ last'.result = "WrongOrganizer"
            /\ heap'[org_ir'[o]] = heap[org_ir[o]]
            /\ in_use'[o] = in_use[o]
    ]_vars

\* An Edit of the other Organizer was rejected while the applying Organizer
\* had one of that Edit's ids in use and in its IR.
C3_Witness ==
    /\ last.op = "apply_edit"
    /\ last.result = "WrongOrganizer"
    /\ last.ids \cap in_use[last.org] # {}
    /\ last.ids \cap DOMAIN IR(last.org) # {}

\* C4 as claimed: after an Edit is dropped without being applied, a new_edit
\* over any id of its writable set succeeds, and the IR is unchanged.
C4_Original ==
    [][last'.op = "drop" =>
        LET o == last'.org
        IN  /\ \A id \in last'.ids :
                  NewEditOutcome(heap'[org_ir'[o]], in_use'[o], {id}) = "Ok"
            /\ heap' = heap /\ org_ir' = org_ir
    ]_vars

\* C4 as amended: after an Edit is dropped without being applied, none of its
\* writable ids is in use, a new_edit over the ids it declared succeeds, a
\* new_edit over an id it allocated itself returns UnknownId (the id never
\* reached the IR), and the IR is unchanged.
C4_DropReleases ==
    [][last'.op = "drop" =>
        LET o == last'.org
            E == edits[last'.edit]
            ir == heap'[org_ir'[o]]
        IN  /\ DOMAIN E.writable \cap in_use'[o] = {}
            /\ NewEditOutcome(ir, in_use'[o], E.declared) = "Ok"
            /\ \A id \in E.declared : NewEditOutcome(ir, in_use'[o], {id}) = "Ok"
            /\ \A id \in DOMAIN E.writable \ E.declared :
                  NewEditOutcome(ir, in_use'[o], {id}) = "UnknownId"
            /\ heap' = heap /\ org_ir' = org_ir
    ]_vars

\* An Edit holding a declared id and an id of its own was just dropped.
C4_Witness ==
    /\ last.op = "drop"
    /\ last.ids \cap DOMAIN IR(last.org) # {}
    /\ last.ids \ DOMAIN IR(last.org) # {}

\* C5: a successful apply_edit sets IR[id] to the pending representation for
\* exactly the writable ids with a pending write (inserting or replacing),
\* leaves every other entry untouched, adds no id without a pending write,
\* and releases all of the Edit's ids from in-use.
C5_ApplyFrame ==
    [][(last'.op = "apply_edit" /\ last'.result = "Ok") =>
        LET o == last'.org
            w == edits[last'.edit].writable
            written == {id \in DOMAIN w : w[id] # None}
            before == heap[org_ir[o]]
            after == heap'[org_ir'[o]]
        IN  /\ DOMAIN after = DOMAIN before \cup written
            /\ \A id \in written : after[id] = w[id]
            /\ \A id \in DOMAIN before \ written : after[id] = before[id]
            /\ in_use'[o] = in_use[o] \ DOMAIN w
    ]_vars

\* An Edit was applied that replaced one declared id, left another declared
\* id without a pending write, and inserted an id it allocated.
C5_Witness ==
    /\ last.op = "apply_edit"
    /\ last.result = "Ok"
    /\ LET w == commits[last.org][Len(commits[last.org])]
       IN  /\ \E id \in DOMAIN w : id \in DOMAIN ir0[last.org]
           /\ \E id \in DOMAIN w : id \notin DOMAIN ir0[last.org]
           /\ \E id \in last.ids : id \notin DOMAIN w /\ id \in DOMAIN ir0[last.org]

(***************************************************************************)
(* Properties of snapshots                                                 *)
(***************************************************************************)

Held == {s \in SnapSlots : snaps[s].h # 0}
Content(s) == heap[snaps[s].h]

Override(ir, w) ==
    [id \in DOMAIN ir \cup DOMAIN w |-> IF id \in DOMAIN w THEN w[id] ELSE ir[id]]

\* The IR of organizer o after its first k commits.
RECURSIVE Version(_, _)
Version(o, k) == IF k = 0 THEN ir0[o] ELSE Override(Version(o, k - 1), commits[o][k])

\* The commits among the first k of organizer o that wrote id.
Writers(o, k, id) == {j \in 1..k : id \in DOMAIN commits[o][j]}
Latest(S) == CHOOSE j \in S : \A i \in S : i <= j

\* C6: commit is atomic with respect to snapshots: a snapshot held across a
\* step, an apply_edit included, does not change; the IR a snapshot taken
\* after the apply_edit returns shows every write of the Edit; and a held
\* snapshot always equals the IR after a whole number of commits.
C6_CommitAtomic ==
    /\ [](\A s \in Held : \E j \in 0..Len(commits[snaps[s].org]) :
                Content(s) = Version(snaps[s].org, j))
    /\ [][/\ \A s \in Held : snaps'[s] = snaps[s] => heap'[snaps'[s].h] = Content(s)
          /\ (last'.op = "apply_edit" /\ last'.result = "Ok") =>
                LET w == Pending(edits[last'.edit].writable)
                    after == heap'[org_ir'[last'.org]]
                IN  \A id \in DOMAIN w : id \in DOMAIN after /\ after[id] = w[id]
       ]_vars

\* An Edit with two pending writes was just applied while a snapshot taken
\* before it is still held and differs from the new IR.
C6_Witness ==
    /\ last.op = "apply_edit"
    /\ last.result = "Ok"
    /\ Cardinality(DOMAIN commits[last.org][Len(commits[last.org])]) >= 2
    /\ \E s \in Held :
          /\ snaps[s].org = last.org
          /\ snaps[s].k < Len(commits[last.org])
          /\ Content(s) # IR(last.org)

\* What the IR of o holds at id after k commits: the value of the latest
\* commit that wrote it, else the value the Organizer was constructed with.
ShowsCommitsUpTo(ir, o, k) ==
    /\ DOMAIN ir = DOMAIN ir0[o] \cup {id \in Ids : Writers(o, k, id) # {}}
    /\ \A id \in DOMAIN ir :
          ir[id] = IF Writers(o, k, id) # {}
                   THEN commits[o][Latest(Writers(o, k, id))][id]
                   ELSE ir0[o][id]

\* C7: snapshots are monotonic: a snapshot taken after commit k holds the
\* writes of the commits up to k and of none after, each id with the value
\* of the latest such commit that wrote it, and no id ever leaves the IR.
C7_SnapshotsMonotonic ==
    /\ [](/\ \A s \in Held : ShowsCommitsUpTo(Content(s), snaps[s].org, snaps[s].k)
          /\ \A o \in Orgs : ShowsCommitsUpTo(IR(o), o, Len(commits[o])))
    /\ [][\A o \in Orgs : DOMAIN heap[org_ir[o]] \subseteq DOMAIN heap'[org_ir'[o]]]_vars

\* A snapshot taken after the first commit is held after a second commit
\* overwrote an id the first had written.
C7_Witness ==
    \E s \in Held :
        LET o == snaps[s].org
        IN  /\ snaps[s].k = 1
            /\ Len(commits[o]) = 2
            /\ \E id \in DOMAIN commits[o][1] \cap DOMAIN commits[o][2] :
                  commits[o][1][id] # commits[o][2][id]

InitIdSpec ==
    /\ InitId
    /\ ir0 = [o \in Orgs |-> EmptyIR]
    /\ org_ir = [o \in Orgs |-> IF o = "A" THEN 1 ELSE 2]
    /\ heap = [h \in {1, 2} |-> EmptyIR]
    /\ in_use = [o \in Orgs |-> {}]
    /\ edits = [e \in EditIds |-> NoEdit]
    /\ snaps = [s \in SnapSlots |-> NoSnap]
    /\ commits = [o \in Orgs |-> <<>>]
    /\ last = NoCall
    /\ budget = 0
    /\ RunIdle

SpecId == InitIdSpec /\ [][NextId]_vars

(***************************************************************************)
(* Properties of the Id allocator                                          *)
(***************************************************************************)

Handed == {i \in DOMAIN handed : handed[i] > 0}
AllIdle == \A t \in IdThreads : idcall[t].pc = "idle"

\* C8: for concurrent allocations on a counter that starts at 0, with N ids
\* requested in total (N within the counter's range), the ids returned are
\* pairwise distinct and lie in 1..N, they are exactly 1..N once every call
\* has returned, no call aborts, and the ids of one call are contiguous and
\* strictly increasing.
C8_IdsDistinctDense ==
    requested <= U64_MAX =>
        /\ ~aborted
        /\ \A i \in DOMAIN handed : handed[i] <= 1
        /\ Handed \subseteq 1..requested
        /\ AllIdle => Handed = 1..requested
        /\ \A t \in IdThreads :
              LET out == idcall[t].out
              IN  /\ \A k \in DOMAIN out : out[k] \in 1..requested
                  /\ \A k \in 1..(Len(out) - 1) : out[k + 1] = out[k] + 1

\* Both threads have returned from calls, one of them with an array of two
\* ids that starts after an id of the other, and the counter has not wrapped.
C8_Witness ==
    /\ AllIdle
    /\ ~aborted
    /\ requested <= U64_MAX
    /\ requested >= 4
    /\ \E t, u \in IdThreads :
          /\ t # u
          /\ Len(idcall[t].out) = 2
          /\ Len(idcall[u].out) >= 1
          /\ idcall[u].out[1] < idcall[t].out[1]

\* C9: on counter exhaustion the process aborts and no caller, also one
\* running concurrently with the overflowing call, is handed an id that was
\* already returned earlier.
C9_NoIdHandedTwice == \A i \in DOMAIN handed : handed[i] <= 1

(***************************************************************************)
(* Scheduler, ToolRunner and the driver loop of transpile                  *)
(***************************************************************************)

\* Cap on the ids that exist in one behaviour of SpecRun.
MaxRunId == 4

\* The Organizer of transpile.
Drv == "A"

\* The representation a tool writes.
ToolRepr(t) == IF t = "t1" THEN "r2" ELSE "r1"

\* Mutant: a worker that gives up the Edit only when run returned Err.
WorkerOut_PanicReturnsEdit(res) == IF res = "Err" THEN "Err" ELSE "Ok"

\* Mutant: a worker that returns the Edit whatever run returned.
WorkerOut_AlwaysOk(res) == "Ok"

\* spawn_tool, lines 113-123: the Edit is returned on Ok; a failed or panicked
\* run yields Err(()) and the Edit has been dropped.
WorkerOut(res) == IF res = "Ok" THEN "Ok" ELSE "Err"

\* Mutant: every run of a tool is given number 1.
NextRunNumber_Stuck(counts, t) == 1

\* ToolReporter::new, lines 37-44: the run number of the next run of a tool.
NextRunNumber(counts, t) == counts[t] + 1

\* The setup of runner::tests::new_edit_errors: ids 1 and 2 are in the IR, id 3
\* was allocated and never inserted; two tools are queued.
InitRun ==
    /\ highest_id = 3
    /\ idcall = [t \in IdThreads |-> IdleCall]
    /\ handed = [i \in 1..U64_MAX |-> IF i <= 3 THEN 1 ELSE 0]
    /\ requested = 3
    /\ aborted = FALSE
    /\ ir0 = InitIR
    /\ org_ir = [o \in Orgs |-> IF o = "A" THEN 1 ELSE 2]
    /\ heap = [h \in {1, 2} |-> IF h = 1 THEN ir0["A"] ELSE ir0["B"]]
    /\ in_use = [o \in Orgs |-> {}]
    /\ edits = [e \in EditIds |-> NoEdit]
    /\ snaps = [s \in SnapSlots |-> NoSnap]
    /\ commits = [o \in Orgs |-> <<>>]
    /\ last = NoCall
    /\ budget = 0
    /\ queue = <<"t1", "t2">>
    /\ taken = <<>>
    /\ dpc = "loop"
    /\ snapshot = 0
    /\ invocations = {}
    /\ chan = <<>>
    /\ ir_version = 0
    /\ worker = [t \in ToolIds |-> NoWorker]
    /\ tool_run_counts = [t \in ToolIds |-> 0]
    /\ tool_runs = {}
    /\ pass = NoPass
    /\ ir_dir = {}
    /\ logging = NoLogging
    /\ lookup = NoLookup

orgFrame == <<snaps, ir0, last, budget>>

\* Mutant: a tool returned with TryLater is pushed twice.
Requeue_Twice(q, t) == Append(Append(q, t), t)

\* Mutant: a tool returned with TryLater is forgotten.
Requeue_Drop(q, t) == q

\* Mutant: a tool returned with TryLater goes to the front of the queue.
Requeue_Front(q, t) == <<t>> \o q

\* next_invocations, line 31, and queue_invocation, line 43: Vec::push.
Requeue(q, t) == Append(q, t)

\* transpile, lines 33-34, and next_invocations, lines 23-24: take a snapshot
\* and replace the queue by an empty one.
LoopTop ==
    /\ dpc = "loop"
    /\ snapshot' = org_ir[Drv]
    /\ taken' = queue
    /\ queue' = <<>>
    /\ dpc' = "pass"
    /\ UNCHANGED <<invocations, chan, ir_version, worker, tool_run_counts>>
    /\ UNCHANGED <<heap, org_ir, in_use, edits, commits, orgFrame, idVars>>

Offered == dpc = "pass" /\ taken # <<>>

\* f(tool) when might_write returns NotRunnable: DontTryAgain.
OfferNotRunnable ==
    /\ Offered
    /\ taken' = Tail(taken)
    /\ UNCHANGED <<queue, dpc, snapshot, invocations, chan, ir_version, worker,
                   tool_run_counts>>
    /\ UNCHANGED <<heap, org_ir, in_use, edits, commits, orgFrame, idVars>>

\* Mutant: the run is opened before might_write is asked.
OfferTryAgain_CountsRun ==
    /\ Offered
    /\ taken' = Tail(taken)
    /\ queue' = Requeue(queue, Head(taken))
    /\ tool_run_counts' = [tool_run_counts EXCEPT ![Head(taken)] =
                              NextRunNumber(tool_run_counts, Head(taken))]
    /\ UNCHANGED <<dpc, snapshot, invocations, chan, ir_version, worker>>
    /\ UNCHANGED <<heap, org_ir, in_use, edits, commits, orgFrame, idVars>>

\* f(tool) when might_write returns TryAgain: TryLater(tool).
OfferTryAgain ==
    /\ Offered
    /\ taken' = Tail(taken)
    /\ queue' = Requeue(queue, Head(taken))
    /\ UNCHANGED <<dpc, snapshot, invocations, chan, ir_version, worker, tool_run_counts>>
    /\ UNCHANGED <<heap, org_ir, in_use, edits, commits, orgFrame, idVars>>

\* f(tool) when might_write returns Runnable(might_write) and new_edit fails
\* with UnknownId: the tool is dropped.
SpawnUnknownId(might_write) ==
    /\ Offered
    /\ NewEditOutcome(IR(Drv), in_use[Drv], might_write) = "UnknownId"
    /\ taken' = Tail(taken)
    /\ UNCHANGED <<queue, dpc, snapshot, invocations, chan, ir_version, worker,
                   tool_run_counts>>
    /\ UNCHANGED <<heap, org_ir, in_use, edits, commits, orgFrame, idVars>>

\* f(tool) when new_edit fails with IdInUse: the tool goes back to the queue.
SpawnIdInUse(might_write) ==
    /\ Offered
    /\ NewEditOutcome(IR(Drv), in_use[Drv], might_write) = "IdInUse"
    /\ taken' = Tail(taken)
    /\ queue' = Requeue(queue, Head(taken))
    /\ UNCHANGED <<dpc, snapshot, invocations, chan, ir_version, worker, tool_run_counts>>
    /\ UNCHANGED <<heap, org_ir, in_use, edits, commits, orgFrame, idVars>>

\* Mutant: the Edit taken before start_tool_run failed is never dropped.
SpawnIoError_LeaksEdit(might_write) ==
    /\ Offered
    /\ NewEditOutcome(IR(Drv), in_use[Drv], might_write) = "Ok"
    /\ LET t == Head(taken)
       IN  tool_run_counts' = [tool_run_counts EXCEPT ![t] = NextRunNumber(tool_run_counts, t)]
    /\ in_use' = [in_use EXCEPT ![Drv] = MarkInUse(in_use[Drv], might_write)]
    /\ taken' = <<>>
    /\ dpc' = "failed"
    /\ heap' = DropArc(heap, snapshot)
    /\ snapshot' = 0
    /\ UNCHANGED <<queue, invocations, chan, ir_version, worker>>
    /\ UNCHANGED <<org_ir, edits, commits, orgFrame, idVars>>

\* Mutant: a failure of start_tool_run only drops the tool, as UnknownId does.
SpawnIoError_Ignored(might_write) ==
    /\ Offered
    /\ NewEditOutcome(IR(Drv), in_use[Drv], might_write) = "Ok"
    /\ LET t == Head(taken)
       IN  tool_run_counts' = [tool_run_counts EXCEPT ![t] = NextRunNumber(tool_run_counts, t)]
    /\ in_use' = [in_use EXCEPT ![Drv] =
                     Release(MarkInUse(in_use[Drv], might_write), NewWritable(might_write))]
    /\ taken' = Tail(taken)
    /\ UNCHANGED <<queue, dpc, snapshot, heap, invocations, chan, ir_version, worker>>
    /\ UNCHANGED <<org_ir, edits, commits, orgFrame, idVars>>

\* f(tool) when new_edit succeeds and start_tool_run fails: the Edit is
\* dropped, next_invocations returns the error and transpile returns it.
SpawnIoError(might_write) ==
    /\ Offered
    /\ NewEditOutcome(IR(Drv), in_use[Drv], might_write) = "Ok"
    /\ LET t == Head(taken)
       IN  tool_run_counts' = [tool_run_counts EXCEPT ![t] = NextRunNumber(tool_run_counts, t)]
    /\ in_use' = [in_use EXCEPT ![Drv] =
                     Release(MarkInUse(in_use[Drv], might_write), NewWritable(might_write))]
    /\ taken' = <<>>
    /\ dpc' = "failed"
    /\ heap' = DropArc(heap, snapshot)
    /\ snapshot' = 0
    /\ UNCHANGED <<queue, invocations, chan, ir_version, worker>>
    /\ UNCHANGED <<org_ir, edits, commits, orgFrame, idVars>>

\* Mutant: the run is handed the IR of another Organizer.
CloneArc_Other(h) == org_ir["B"]

\* transpile, line 54: snapshot.clone() is another handle to the same IR.
CloneArc(h) == h

\* f(tool) when spawn_tool succeeds: the Edit is created, the run is started
\* and the worker thread is spawned.
SpawnOk(might_write) ==
    /\ Offered
    /\ NewEditOutcome(IR(Drv), in_use[Drv], might_write) = "Ok"
    /\ LET t == Head(taken)
           e == FreeEdit
       IN  /\ in_use' = [in_use EXCEPT ![Drv] = MarkInUse(in_use[Drv], might_write)]
           /\ edits' = [edits EXCEPT ![e] =
                          [live |-> TRUE, shared |-> Drv,
                           writable |-> NewWritable(might_write),
                           declared |-> might_write]]
           /\ tool_run_counts' =
                 [tool_run_counts EXCEPT ![t] = NextRunNumber(tool_run_counts, t)]
           /\ worker' = [worker EXCEPT ![t] =
                           [pc |-> "run", edit |-> e, snap |-> CloneArc(snapshot),
                            mw |-> might_write, res |-> None, out |-> None,
                            handles |-> 0]]
           /\ invocations' = invocations \cup {t}
    /\ taken' = Tail(taken)
    /\ UNCHANGED <<queue, dpc, snapshot, chan, ir_version>>
    /\ UNCHANGED <<heap, org_ir, commits, orgFrame, idVars>>

\* The tool, in run, writes one of the ids (Edit::try_write_id).
ToolWrite(t, id) ==
    /\ worker[t].pc = "run"
    /\ edits' = [edits EXCEPT ![worker[t].edit].writable =
                    TryWrite(edits[worker[t].edit].writable, id, ToolRepr(t))]
    /\ UNCHANGED runVars
    /\ UNCHANGED <<heap, org_ir, in_use, commits, orgFrame, idVars>>

\* The tool, in run, adds a representation (Edit::add_representation).
ToolAdd(t) ==
    /\ worker[t].pc = "run"
    /\ highest_id < MaxRunId
    /\ LET id == IdNew
       IN  /\ highest_id' = WrappingAdd(highest_id, 1)
           /\ edits' = [edits EXCEPT ![worker[t].edit].writable =
                          Insert(edits[worker[t].edit].writable, id, ToolRepr(t))]
           /\ handed' = [handed EXCEPT ![id] = @ + 1]
    /\ requested' = requested + 1
    /\ UNCHANGED <<idcall, aborted>>
    /\ UNCHANGED runVars
    /\ UNCHANGED <<heap, org_ir, in_use, commits, orgFrame>>

\* The tool, in run, allocates an id without writing it (Edit::new_id).
ToolNewId(t) ==
    /\ worker[t].pc = "run"
    /\ highest_id < MaxRunId
    /\ LET id == IdNew
       IN  /\ highest_id' = WrappingAdd(highest_id, 1)
           /\ edits' = [edits EXCEPT ![worker[t].edit].writable =
                          Insert(edits[worker[t].edit].writable, id, None)]
           /\ handed' = [handed EXCEPT ![id] = @ + 1]
    /\ requested' = requested + 1
    /\ UNCHANGED <<idcall, aborted>>
    /\ UNCHANGED runVars
    /\ UNCHANGED <<heap, org_ir, in_use, commits, orgFrame>>

\* spawn_tool, lines 103-123: run returns Ok or Err, or panics; the RunContext
\* and, unless run returned Ok, the Edit are dropped.
ToolReturn(t, res) ==
    /\ worker[t].pc = "run"
    /\ LET e == worker[t].edit
           out == WorkerOut(res)
       IN  /\ IF out = "Ok"
              THEN /\ UNCHANGED <<edits, in_use>>
                   /\ worker' = [worker EXCEPT ![t].pc = "closing", ![t].snap = 0,
                                               ![t].res = res, ![t].out = out]
              ELSE /\ in_use' = [in_use EXCEPT ![edits[e].shared] =
                                    Release(@, edits[e].writable)]
                   /\ edits' = [edits EXCEPT ![e] = NoEdit]
                   /\ worker' = [worker EXCEPT ![t].pc = "closing", ![t].snap = 0,
                                               ![t].edit = 0,
                                               ![t].res = res, ![t].out = out]
    /\ heap' = DropArc(heap, worker[t].snap)
    /\ UNCHANGED <<queue, taken, dpc, snapshot, invocations, chan, ir_version,
                   tool_run_counts>>
    /\ UNCHANGED <<org_ir, commits, orgFrame, idVars>>

\* Mutant: join returns while handles of the run are still alive.
JoinReturns_NoWait(w) == TRUE

\* ToolJoiner::join: recv returns once RunShared was dropped, that is, once
\* no ToolReporter clone and no ThreadGuard of the run is left.
JoinReturns(w) == w.handles = 0

\* Mutant: the worker sends its thread id twice.
Signal_Twice(t) ==
    /\ worker[t].pc = "closing"
    /\ JoinReturns(worker[t])
    /\ worker' = [worker EXCEPT ![t].pc = "sent"]
    /\ chan' = Append(Append(chan, t), t)
    /\ UNCHANGED <<queue, taken, dpc, snapshot, invocations, ir_version, tool_run_counts>>
    /\ UNCHANGED <<heap, org_ir, in_use, edits, commits, orgFrame, idVars>>

\* spawn_tool, lines 124-125: the run is closed and the worker signals.
Signal(t) ==
    /\ worker[t].pc = "closing"
    /\ JoinReturns(worker[t])
    /\ worker' = [worker EXCEPT ![t].pc = "sent"]
    /\ chan' = Append(chan, t)
    /\ UNCHANGED <<queue, taken, dpc, snapshot, invocations, ir_version, tool_run_counts>>
    /\ UNCHANGED <<heap, org_ir, in_use, edits, commits, orgFrame, idVars>>

\* process_tool_results, line 48: nothing is in flight; transpile breaks.
ResultsNone ==
    /\ dpc = "pass"
    /\ taken = <<>>
    /\ invocations = {}
    /\ dpc' = "done"
    /\ heap' = DropArc(heap, snapshot)
    /\ snapshot' = 0
    /\ UNCHANGED <<queue, taken, invocations, chan, ir_version, worker, tool_run_counts>>
    /\ UNCHANGED <<org_ir, in_use, edits, commits, orgFrame, idVars>>

\* Mutant: handling one completion empties the map.
RemoveInvocation_All(inv, t) == {}

\* Mutant: a handled invocation stays in the map.
RemoveInvocation_Keep(inv, t) == inv

\* process_tool_results, lines 54-57: self.invocations.remove(&thread_id).
RemoveInvocation(inv, t) == inv \ {t}

\* Mutant: the version counts every Edit handed to apply_edit.
BumpVersion_Always(v, applied) == v + 1

\* process_tool_results, lines 65-69: the version is incremented when
\* apply_edit returned Ok, and left alone when it returned WrongOrganizer.
BumpVersion(v, applied) == IF applied THEN v + 1 ELSE v

\* process_tool_results, lines 54-71: one completion taken from the channel.
\* The worker is joined; an Edit it returned is applied, and on success the
\* version is bumped.
HandleCompletion ==
    LET t == Head(chan)
        e == worker[t].edit
    IN  /\ invocations' = RemoveInvocation(invocations, t)
        /\ chan' = Tail(chan)
        /\ worker' = [worker EXCEPT ![t].pc = "joined", ![t].edit = 0]
        /\ IF worker[t].out = "Ok"
           THEN /\ in_use' = [in_use EXCEPT ![edits[e].shared] =
                                 Release(@, edits[e].writable)]
                /\ edits' = [edits EXCEPT ![e] = NoEdit]
                /\ IF PtrEq(Drv, e)
                   THEN LET h == org_ir[Drv]
                            h2 == IF MakeMutClones(h) THEN FreeHandle ELSE h
                            ir == ApplyWrites(heap[h], edits[e].writable)
                        IN  /\ heap' = [x \in DOMAIN heap \cup {h2} |->
                                          IF x = h2 THEN ir ELSE heap[x]]
                            /\ org_ir' = [org_ir EXCEPT ![Drv] = h2]
                            /\ commits' = [commits EXCEPT ![Drv] =
                                             Append(@, Pending(edits[e].writable))]
                            /\ ir_version' = BumpVersion(ir_version, TRUE)
                   ELSE /\ UNCHANGED <<heap, org_ir, commits>>
                        /\ ir_version' = BumpVersion(ir_version, FALSE)
           ELSE UNCHANGED <<in_use, edits, heap, org_ir, commits, ir_version>>

\* process_tool_results, line 52: recv() blocks until a worker has signalled.
ResultsFirst ==
    /\ dpc = "pass"
    /\ taken = <<>>
    /\ invocations # {}
    /\ chan # <<>>
    /\ HandleCompletion
    /\ dpc' = "drain"
    /\ UNCHANGED <<queue, taken, snapshot, tool_run_counts>>
    /\ UNCHANGED <<orgFrame, idVars>>

\* process_tool_results, line 52: try_iter() yields another completion.
ResultsMore ==
    /\ dpc = "drain"
    /\ chan # <<>>
    /\ HandleCompletion
    /\ UNCHANGED <<queue, taken, dpc, snapshot, tool_run_counts>>
    /\ UNCHANGED <<orgFrame, idVars>>

\* process_tool_results returns true; the loop body ends and drops `snapshot`.
ResultsEnd ==
    /\ dpc = "drain"
    /\ chan = <<>>
    /\ dpc' = "loop"
    /\ heap' = DropArc(heap, snapshot)
    /\ snapshot' = 0
    /\ UNCHANGED <<queue, taken, invocations, chan, ir_version, worker, tool_run_counts>>
    /\ UNCHANGED <<org_ir, in_use, edits, commits, orgFrame, idVars>>

NextRun ==
    \/ LoopTop /\ UNCHANGED histVars
    \/ OfferNotRunnable /\ UNCHANGED histVars
    \/ OfferTryAgain /\ UNCHANGED histVars
    \/ \E mw \in SUBSET (1..highest_id) : SpawnUnknownId(mw) /\ UNCHANGED histVars
    \/ \E mw \in SUBSET (1..highest_id) : SpawnIdInUse(mw) /\ UNCHANGED histVars
    \/ \E mw \in SUBSET (1..highest_id) : SpawnIoError(mw) /\ UNCHANGED histVars
    \/ \E mw \in SUBSET (1..highest_id) : SpawnOk(mw) /\ UNCHANGED histVars
    \/ \E t \in ToolIds, id \in 1..highest_id : ToolWrite(t, id) /\ UNCHANGED histVars
    \/ \E t \in ToolIds : ToolAdd(t) /\ UNCHANGED histVars
    \/ \E t \in ToolIds : ToolNewId(t) /\ UNCHANGED histVars
    \/ \E t \in ToolIds, res \in {"Ok", "Err", "Panic"} : ToolReturn(t, res) /\ UNCHANGED histVars
    \/ \E t \in ToolIds : Signal(t) /\ UNCHANGED histVars
    \/ ResultsNone /\ UNCHANGED histVars
    \/ ResultsFirst /\ UNCHANGED histVars
    \/ ResultsMore /\ UNCHANGED histVars
    \/ ResultsEnd /\ UNCHANGED histVars

SpecRun == InitRun /\ [][NextRun]_vars

(***************************************************************************)
(* Claims about the runner                                                 *)
(***************************************************************************)

\* The step in which process_tool_results handles the completion of tool t.
Handles(t) == worker[t].pc = "sent" /\ worker'[t].pc = "joined"

\* The step in which the run of tool t ends with result res.
Returns(t, res) == worker[t].pc = "run" /\ worker'[t].pc = "closing" /\ worker'[t].res = res

\* The ids held by the live Edits of the tools other than t.
HeldByOthers(t) ==
    UNION {DOMAIN edits[worker[u].edit].writable : u \in {v \in ToolIds \ {t} : worker[v].edit # 0}}

\* C10, as stated: once process_tool_results has handled the completion of a
\* tool whose run returned Err, the IR and the IR version are unchanged, every
\* id the tool declared in might_write is free, and the driver loop goes on.
C10_Original ==
    [][\A t \in ToolIds :
          (Handles(t) /\ worker[t].res = "Err") =>
              /\ IR(Drv)' = IR(Drv)
              /\ ir_version' = ir_version
              /\ worker[t].mw \cap in_use'[Drv] = {}
              /\ dpc' = "drain"]_vars

\* C10, amended: when the run of a tool returns Err its Edit is dropped on the
\* worker thread, which releases every id the Edit could write and leaves the
\* IR and the IR version alone; handling the completion changes neither the
\* IR, nor the IR version, nor the in-use set, a declared id that is in use at
\* that point is held by the live Edit of another tool, and the driver loop
\* goes on with the other tools.
C10_ErrDropsEdit ==
    /\ [](\A t \in ToolIds :
             (worker[t].res = "Err" /\ worker[t].pc \in {"closing", "sent", "joined"}) =>
                 worker[t].edit = 0)
    /\ [][\A t \in ToolIds :
             /\ Returns(t, "Err") =>
                   LET e == worker[t].edit
                   IN  /\ edits[e].live /\ ~edits'[e].live
                       /\ worker[t].mw \subseteq DOMAIN edits[e].writable
                       /\ in_use'[Drv] = in_use[Drv] \ DOMAIN edits[e].writable
                       /\ IR(Drv)' = IR(Drv)
                       /\ ir_version' = ir_version
                       /\ commits' = commits
             /\ (Handles(t) /\ worker[t].res = "Err") =>
                   /\ IR(Drv)' = IR(Drv)
                   /\ ir_version' = ir_version
                   /\ commits' = commits
                   /\ in_use' = in_use
                   /\ edits' = edits
                   /\ worker[t].mw \cap in_use'[Drv] \subseteq HeldByOthers(t)'
                   /\ dpc' = "drain"
                   /\ queue' = queue
                   /\ invocations' = invocations \ {t}]_vars

\* The completion of a failed tool that declared ids has been handled while
\* the other tool is still running, and the declared ids are free.
C10_Witness ==
    \E t \in ToolIds :
        /\ worker[t].pc = "joined"
        /\ worker[t].res = "Err"
        /\ worker[t].mw # {}
        /\ worker[t].mw \cap in_use[Drv] = {}
        /\ dpc = "drain"
        /\ \E u \in ToolIds \ {t} : worker[u].pc = "run"

(***************************************************************************)
(* Scheduling: the driver thread and the worker threads all keep running   *)
(***************************************************************************)

\* One step of the thread that runs transpile.
DriverStep ==
    \/ LoopTop
    \/ OfferNotRunnable
    \/ OfferTryAgain
    \/ \E mw \in SUBSET (1..highest_id) :
          SpawnUnknownId(mw) \/ SpawnIdInUse(mw) \/ SpawnIoError(mw) \/ SpawnOk(mw)
    \/ ResultsNone
    \/ ResultsFirst
    \/ ResultsMore
    \/ ResultsEnd

\* One step of the worker thread of tool t.  A run returns: Tool::run is
\* assumed to terminate, as the driver has no timeout for it.
WorkerStep(t) ==
    \/ \E id \in 1..highest_id : ToolWrite(t, id)
    \/ ToolAdd(t)
    \/ ToolNewId(t)
    \/ \E res \in {"Ok", "Err", "Panic"} : ToolReturn(t, res)
    \/ Signal(t)

\* transpile with threads that the operating system keeps scheduling.
FairRun ==
    /\ SpecRun
    /\ WF_vars(DriverStep /\ UNCHANGED histVars)
    /\ \A t \in ToolIds : WF_vars(WorkerStep(t) /\ UNCHANGED histVars)

\* C11: a worker whose tool panics inside run changes neither the IR nor the
\* IR version, holds no id once the panic is caught (its Edit is dropped with
\* all its ids), still signals completion, which the driver then handles
\* (unless transpile has returned an I/O error in the meantime), and
\* does not stand in the way of the other tools: an id is refused to them only
\* when another live Edit holds it, and an Edit another tool returned is
\* applied as usual.
C11_PanicContained ==
    /\ [][\A t \in ToolIds :
             /\ Returns(t, "Panic") =>
                   LET e == worker[t].edit
                   IN  /\ edits[e].live /\ ~edits'[e].live
                       /\ worker'[t].edit = 0
                       /\ in_use'[Drv] = in_use[Drv] \ DOMAIN edits[e].writable
                       /\ IR(Drv)' = IR(Drv)
                       /\ ir_version' = ir_version
             /\ (Handles(t) /\ worker[t].res = "Panic") =>
                   /\ Head(chan) = t
                   /\ IR(Drv)' = IR(Drv)
                   /\ ir_version' = ir_version
                   /\ in_use' = in_use
                   /\ dpc' = "drain"
             /\ (Handles(t) /\ worker[t].out = "Ok"
                   /\ \E u \in ToolIds \ {t} : worker[u].res = "Panic") =>
                   /\ IR(Drv)' = ApplyWrites(IR(Drv), edits[worker[t].edit].writable)
                   /\ ir_version' = ir_version + 1]_vars
    /\ [](\A t \in ToolIds :
             (worker[t].res = "Panic") =>
                 /\ worker[t].edit = 0
                 /\ in_use[Drv] \subseteq HeldByOthers(t)
                 /\ \A mw \in SUBSET DOMAIN IR(Drv) :
                       mw \cap HeldByOthers(t) = {} =>
                           NewEditOutcome(IR(Drv), in_use[Drv], mw) = "Ok")
    /\ \A t \in ToolIds :
          (worker[t].res = "Panic") ~> (worker[t].pc = "joined" \/ dpc = "failed")

\* A tool that declared ids panicked and its completion was handled; the
\* other tool, which declared one of the same ids, has committed.
C11_Witness ==
    \E t \in ToolIds : \E u \in ToolIds \ {t} :
        /\ worker[t].res = "Panic"
        /\ worker[t].pc = "joined"
        /\ worker[t].mw \cap worker[u].mw # {}
        /\ worker[u].out = "Ok"
        /\ worker[u].pc = "joined"
        /\ ir_version = 1
        /\ in_use[Drv] = {}

(***************************************************************************)
(* Tools that replace the Edit they were given                             *)
(***************************************************************************)

\* The tool, in run, overwrites *ir_edit with an Edit of an Organizer of its
\* own (Organizer "B"): the Edit it was given is dropped, which releases its
\* ids, and the worker goes on with the new Edit.
ToolReplace(t) ==
    /\ worker[t].pc = "run"
    /\ edits[worker[t].edit].shared = Drv
    /\ LET e == worker[t].edit
       IN  /\ in_use' = [in_use EXCEPT ![Drv] = Release(@, edits[e].writable)]
           /\ edits' = [edits EXCEPT ![e] =
                          [live |-> TRUE, shared |-> "B",
                           writable |-> NewWritable({}), declared |-> {}]]
    /\ UNCHANGED runVars
    /\ UNCHANGED <<heap, org_ir, commits, orgFrame, idVars>>

NextReplace ==
    \/ NextRun
    \/ \E t \in ToolIds : ToolReplace(t) /\ UNCHANGED histVars

SpecReplace == InitRun /\ [][NextReplace]_vars

\* C12: the IR version starts at 0 and counts the successful apply_edit
\* calls: it always equals the number of commits, it changes only in the
\* step that handles the completion of a tool that returned an Edit of the
\* driver's Organizer, and then by one; a failed or panicked run, and an
\* Edit that apply_edit rejects, leave it unchanged.
C12_VersionCountsCommits ==
    /\ [](ir_version = Len(commits[Drv]))
    /\ [][/\ ir_version' \in {ir_version, ir_version + 1}
          /\ ir_version' = ir_version + 1 <=>
                \E t \in ToolIds :
                   /\ Handles(t)
                   /\ worker[t].out = "Ok"
                   /\ edits[worker[t].edit].shared = Drv
                   /\ IR(Drv)' = ApplyWrites(IR(Drv), edits[worker[t].edit].writable)
          /\ \A t \in ToolIds :
                (Handles(t) /\ worker[t].out = "Ok" /\ edits[worker[t].edit].shared # Drv) =>
                    /\ ir_version' = ir_version
                    /\ IR(Drv)' = IR(Drv)
                    /\ ~edits'[worker[t].edit].live]_vars

\* Both tools returned an Edit and both completions were handled; one Edit
\* was applied and the other rejected, so the version is 1.
C12_Witness ==
    \E t \in ToolIds : \E u \in ToolIds \ {t} :
        /\ worker[t].pc = "joined" /\ worker[t].out = "Ok"
        /\ worker[u].pc = "joined" /\ worker[u].out = "Ok"
        /\ ir_version = 1
        /\ Len(commits[Drv]) = 1

(***************************************************************************)
(* Diagnostics: tool run numbers and the steps directories                 *)
(***************************************************************************)

\* Cap on the calls of start_tool_run in one behaviour of SpecDiag.
MaxRuns == 4

\* Tool names (Tool::name), one of which ends like a run number.
DiagNames == {"a", "a_001", "b"}

\* What the file system does to ToolReporter::new: nothing, an error from
\* create_dir, or an error from opening the messages file of the run.
IoOutcomes == {"ok", "create_dir", "messages"}

\* format!("{:03}", number)
Pad3(n) ==
    LET str == ToString(n)
    IN  IF Len(str) = 1 THEN "00" \o str ELSE IF Len(str) = 2 THEN "0" \o str ELSE str

\* Display for ToolRunId: "{tool}_{number:03}", the name of the run's
\* directory under steps/.
RunDir(name, number) == name \o "_" \o Pad3(number)

\* The directories under steps/.
Dirs == {r.dir : r \in {q \in tool_runs : q.created}}

\* Collector::initialize: no run has been counted, steps/ is empty.
InitDiag ==
    /\ InitId
    /\ ir0 = [o \in Orgs |-> EmptyIR]
    /\ org_ir = [o \in Orgs |-> IF o = "A" THEN 1 ELSE 2]
    /\ heap = [h \in {1, 2} |-> EmptyIR]
    /\ in_use = [o \in Orgs |-> {}]
    /\ edits = [e \in EditIds |-> NoEdit]
    /\ snaps = [s \in SnapSlots |-> NoSnap]
    /\ commits = [o \in Orgs |-> <<>>]
    /\ last = NoCall
    /\ budget = 0
    /\ queue = <<>>
    /\ taken = <<>>
    /\ dpc = "done"
    /\ snapshot = 0
    /\ invocations = {}
    /\ chan = <<>>
    /\ ir_version = 0
    /\ worker = [t \in ToolIds |-> NoWorker]
    /\ tool_run_counts = [n \in DiagNames |-> 0]
    /\ tool_runs = {}
    /\ pass = NoPass
    /\ ir_dir = {}
    /\ logging = NoLogging
    /\ lookup = NoLookup

\* Reporter::start_tool_run / ToolReporter::new for a tool called name, all of
\* it under the diagnostics mutex: the run is counted, then its directory and
\* its messages file are created, either of which can fail.
StartToolRun(name, io) ==
    /\ Cardinality(tool_runs) < MaxRuns
    /\ LET number == NextRunNumber(tool_run_counts, name)
           dir == RunDir(name, number)
           created == io # "create_dir" /\ dir \notin Dirs
       IN  /\ tool_run_counts' = [tool_run_counts EXCEPT ![name] = number]
           /\ tool_runs' = tool_runs \cup
                 {[seq |-> Cardinality(tool_runs) + 1, tool |-> name, number |-> number,
                   dir |-> dir, created |-> created, ok |-> created /\ io = "ok"]}
    /\ UNCHANGED <<queue, taken, dpc, snapshot, invocations, chan, ir_version, worker>>
    /\ UNCHANGED <<pass, ir_dir, logging, lookup, orgVars, idVars>>

NextDiag == \E name \in DiagNames, io \in IoOutcomes : StartToolRun(name, io)

SpecDiag == InitDiag /\ [][NextDiag]_vars

\* The calls of start_tool_run for the tool of run r up to and including r,
\* in the order in which they took the diagnostics mutex.
CallsUpTo(r) == {q \in tool_runs : q.tool = r.tool /\ q.seq <= r.seq}

SchedTools == {"a", "b", "c"}

\* The elements of a sequence.
Range(seq) == {seq[i] : i \in DOMAIN seq}

\* next_invocations, line 33: `return Err(error)` leaves the for loop, which
\* drops the iterator over the old queue and with it the tools not yet offered;
\* the queue holds what was pushed so far.
AfterError(q, rest) == q

\* Scheduler::default(), outside any call.
InitSched ==
    /\ InitId
    /\ ir0 = [o \in Orgs |-> EmptyIR]
    /\ org_ir = [o \in Orgs |-> IF o = "A" THEN 1 ELSE 2]
    /\ heap = [h \in {1, 2} |-> EmptyIR]
    /\ in_use = [o \in Orgs |-> {}]
    /\ edits = [e \in EditIds |-> NoEdit]
    /\ snaps = [s \in SnapSlots |-> NoSnap]
    /\ commits = [o \in Orgs |-> <<>>]
    /\ last = NoCall
    /\ budget = 0
    /\ queue = <<>>
    /\ taken = <<>>
    /\ dpc = "loop"
    /\ snapshot = 0
    /\ invocations = {}
    /\ chan = <<>>
    /\ ir_version = 0
    /\ worker = [t \in ToolIds |-> NoWorker]
    /\ tool_run_counts = [t \in ToolIds |-> 0]
    /\ tool_runs = {}
    /\ pass = NoPass
    /\ ir_dir = {}
    /\ logging = NoLogging
    /\ lookup = NoLookup

schedFrame == <<snapshot, invocations, chan, ir_version, worker, tool_run_counts,
                tool_runs, ir_dir, logging, lookup, orgVars, idVars>>

\* Scheduler::queue_invocation, between two calls of next_invocations.
QueueInvocation(t) ==
    /\ dpc = "loop"
    /\ t \notin Range(queue)
    /\ queue' = Requeue(queue, t)
    /\ UNCHANGED <<taken, dpc, pass, schedFrame>>

\* next_invocations, lines 23-24: the queue is replaced by an empty one and
\* the loop over the old queue starts.
PassStart ==
    /\ dpc = "loop"
    /\ taken' = queue
    /\ queue' = <<>>
    /\ dpc' = "pass"
    /\ pass' = [start |-> queue, offers |-> <<>>, result |-> None]
    /\ UNCHANGED schedFrame

\* next_invocations, lines 27-28: f(tool) returns DontTryAgain.
FDontTryAgain ==
    /\ dpc = "pass"
    /\ taken # <<>>
    /\ taken' = Tail(taken)
    /\ pass' = [pass EXCEPT !.offers =
                  Append(@, [tool |-> Head(taken), outcome |-> "DontTryAgain"])]
    /\ UNCHANGED <<queue, dpc, schedFrame>>

\* next_invocations, lines 29-32: f(tool) returns TryLater(tool).
FTryLater ==
    /\ dpc = "pass"
    /\ taken # <<>>
    /\ taken' = Tail(taken)
    /\ queue' = Requeue(queue, Head(taken))
    /\ pass' = [pass EXCEPT !.offers =
                  Append(@, [tool |-> Head(taken), outcome |-> "TryLater"])]
    /\ UNCHANGED <<dpc, schedFrame>>

\* next_invocations, line 33: f(tool) returns Error(error).
FError ==
    /\ dpc = "pass"
    /\ taken # <<>>
    /\ taken' = <<>>
    /\ queue' = AfterError(queue, Tail(taken))
    /\ dpc' = "loop"
    /\ pass' = [pass EXCEPT !.offers = Append(@, [tool |-> Head(taken), outcome |-> "Error"]),
                            !.result = "Err"]
    /\ UNCHANGED schedFrame

\* next_invocations, line 36: the loop is over, Ok(()).
PassEnd ==
    /\ dpc = "pass"
    /\ taken = <<>>
    /\ dpc' = "loop"
    /\ pass' = [pass EXCEPT !.result = "Ok"]
    /\ UNCHANGED <<queue, taken, schedFrame>>

NextSched ==
    \/ \E t \in SchedTools : QueueInvocation(t)
    \/ PassStart
    \/ FDontTryAgain
    \/ FTryLater
    \/ FError
    \/ PassEnd

SpecSched == InitSched /\ [][NextSched]_vars

\* The tools of the offers of the pass that had the given outcome, in order.
OfferedWith(outcome) ==
    LET sel == SelectSeq(pass.offers, LAMBDA o : o.outcome = outcome)
    IN  [i \in DOMAIN sel |-> sel[i].tool]

\* C14: one pass offers the tools that were queued at its start to f in FIFO
\* order, each once; while the pass runs and when it returns Ok the queue is
\* the tools for which f returned TryLater, in the order of their offers; a
\* tool for which f returned DontTryAgain is gone; and a tool given back with
\* TryLater is not offered again in the same pass.
C14_PassFifoOnce ==
    /\ [](/\ Len(pass.offers) <= Len(pass.start)
          /\ \A i \in DOMAIN pass.offers : pass.offers[i].tool = pass.start[i]
          /\ dpc = "pass" =>
                /\ pass.start = [i \in DOMAIN pass.offers |-> pass.offers[i].tool] \o taken
                /\ queue = OfferedWith("TryLater")
                /\ Range(queue) \cap Range(taken) = {}
                /\ Range(OfferedWith("DontTryAgain")) \cap (Range(queue) \cup Range(taken)) = {})
    /\ [][(pass.result = None /\ pass'.result = "Ok") =>
             /\ Len(pass'.offers) = Len(pass'.start)
             /\ queue' = OfferedWith("TryLater")'
             /\ Range(OfferedWith("DontTryAgain"))' \cap Range(queue') = {}
             /\ taken' = <<>>]_vars

\* A pass over three tools has returned Ok: the first and the third were given
\* back with TryLater, the second was not.
C14_Witness ==
    /\ pass.result = "Ok"
    /\ Len(pass.start) = 3
    /\ pass.offers[1].outcome = "TryLater"
    /\ pass.offers[2].outcome = "DontTryAgain"
    /\ pass.offers[3].outcome = "TryLater"
    /\ queue = <<pass.start[1], pass.start[3]>>

\* C15: when f returns Error the pass ends with that error and every tool
\* that had not been offered to f yet is still in the queue afterwards.
C15_ErrorKeepsTools ==
    [][(pass.result = None /\ pass'.result = "Err") =>
          /\ dpc' = "loop"
          /\ \A t \in Range(Tail(taken)) : t \in Range(queue')]_vars

(***************************************************************************)
(* Quiescence: tools that commit or are not runnable                       *)
(***************************************************************************)

\* One step of the driver when every tool reports NotRunnable or declares
\* ids of the IR, and the diagnostics directory can be written.
DriverQuiet ==
    \/ LoopTop
    \/ OfferNotRunnable
    \/ \E mw \in SUBSET DOMAIN IR(Drv) : SpawnIdInUse(mw)
    \/ \E mw \in SUBSET DOMAIN IR(Drv) : SpawnOk(mw)
    \/ ResultsNone
    \/ ResultsFirst
    \/ ResultsMore
    \/ ResultsEnd

\* One step of the worker of tool t when its run returns Ok.
WorkerQuiet(t) ==
    \/ \E id \in 1..highest_id : ToolWrite(t, id)
    \/ ToolAdd(t)
    \/ ToolNewId(t)
    \/ ToolReturn(t, "Ok")
    \/ Signal(t)

NextQuiet ==
    \/ DriverQuiet /\ UNCHANGED histVars
    \/ \E t \in ToolIds : WorkerQuiet(t) /\ UNCHANGED histVars

\* transpile over tools that commit or are not runnable, with every thread
\* scheduled again and again and every run returning.
FairQuiet ==
    /\ InitRun
    /\ [][NextQuiet]_vars
    /\ WF_vars(DriverQuiet /\ UNCHANGED histVars)
    /\ \A t \in ToolIds : WF_vars(WorkerQuiet(t) /\ UNCHANGED histVars)

\* C16: when every queued tool commits or reports NotRunnable, no tool is
\* queued later and every run returns, the driver loop reaches its break:
\* nothing is queued or running then, and every tool that was spawned has
\* committed.
C16_LoopTerminates ==
    /\ <>(dpc = "done")
    /\ [](dpc = "done" =>
             /\ queue = <<>>
             /\ invocations = {}
             /\ \A t \in ToolIds : worker[t].pc \in {"idle", "joined"}
             /\ ir_version = Cardinality({t \in ToolIds : worker[t].pc = "joined"}))

\* The loop has ended after both tools committed, although they declared a
\* common id.
C16_Witness ==
    /\ dpc = "done"
    /\ ir_version = 2
    /\ worker["t1"].mw \cap worker["t2"].mw # {}

(***************************************************************************)
(* The passes of the driver loop                                           *)
(***************************************************************************)

\* The closure of transpile is entered for the tool at the head of the pass
\* and leaves with the given outcome.
Offer(outcome) ==
    /\ pass' = [pass EXCEPT !.offers =
                  Append(@, [tool |-> Head(taken), outcome |-> outcome])]
    /\ UNCHANGED <<tool_runs, ir_dir, logging, lookup>>

\* transpile with the offers of the current pass recorded.
NextPass ==
    \/ /\ LoopTop
       /\ pass' = [start |-> queue, offers |-> <<>>, result |-> None]
       /\ UNCHANGED <<tool_runs, ir_dir, logging, lookup>>
    \/ OfferNotRunnable /\ Offer("NotRunnable")
    \/ OfferTryAgain /\ Offer("TryAgain")
    \/ \E mw \in SUBSET (1..highest_id) : SpawnUnknownId(mw) /\ Offer("UnknownId")
    \/ \E mw \in SUBSET (1..highest_id) : SpawnIdInUse(mw) /\ Offer("IdInUse")
    \/ \E mw \in SUBSET (1..highest_id) : SpawnIoError(mw) /\ Offer("IoError")
    \/ \E mw \in SUBSET (1..highest_id) : SpawnOk(mw) /\ Offer("Spawned")
    \/ \E t \in ToolIds, id \in 1..highest_id : ToolWrite(t, id) /\ UNCHANGED histVars
    \/ \E t \in ToolIds : ToolAdd(t) /\ UNCHANGED histVars
    \/ \E t \in ToolIds : ToolNewId(t) /\ UNCHANGED histVars
    \/ \E t \in ToolIds, res \in {"Ok", "Err", "Panic"} : ToolReturn(t, res) /\ UNCHANGED histVars
    \/ \E t \in ToolIds : Signal(t) /\ UNCHANGED histVars
    \/ ResultsNone /\ UNCHANGED histVars
    \/ ResultsFirst /\ UNCHANGED histVars
    \/ ResultsMore /\ UNCHANGED histVars
    \/ ResultsEnd /\ UNCHANGED histVars

SpecPass == InitRun /\ [][NextPass]_vars

\* C17 as stated: when the loop has exited normally the queue is empty and no
\* tool is running.
C17_Original ==
    dpc = "done" => queue = <<>> /\ invocations = {}

\* C17: when the loop has exited normally no tool is running: no invocation,
\* unread signal, live Edit or id in use is left; the queue holds the tools
\* whose might_write returned TryAgain in the last pass, in the order they
\* were offered, and no tool of that pass was refused for an id in use.
C17_ExitNothingRunning ==
    dpc = "done" =>
        /\ invocations = {}
        /\ chan = <<>>
        /\ \A t \in ToolIds : worker[t].pc \in {"idle", "joined"}
        /\ \A e \in EditIds : ~edits[e].live
        /\ in_use[Drv] = {}
        /\ queue = OfferedWith("TryAgain")
        /\ OfferedWith("IdInUse") = <<>>

\* The loop has exited after a commit with a tool still queued.
C17_Witness ==
    /\ dpc = "done"
    /\ worker["t1"].pc = "joined"
    /\ ir_version = 1
    /\ queue = <<"t2">>

(***************************************************************************)
(* Two tools that declare the same id                                      *)
(***************************************************************************)

\* The set both tools return from might_write: one id of the initial IR.
RaceWrites == {1}

\* transpile when might_write of every tool returns Runnable(RaceWrites).
NextRace ==
    \/ /\ LoopTop
       /\ pass' = [start |-> queue, offers |-> <<>>, result |-> None]
       /\ UNCHANGED <<tool_runs, ir_dir, logging, lookup>>
    \/ SpawnIdInUse(RaceWrites) /\ Offer("IdInUse")
    \/ SpawnIoError(RaceWrites) /\ Offer("IoError")
    \/ SpawnOk(RaceWrites) /\ Offer("Spawned")
    \/ \E t \in ToolIds, id \in 1..highest_id : ToolWrite(t, id) /\ UNCHANGED histVars
    \/ \E t \in ToolIds : ToolAdd(t) /\ UNCHANGED histVars
    \/ \E t \in ToolIds : ToolNewId(t) /\ UNCHANGED histVars
    \/ \E t \in ToolIds, res \in {"Ok", "Err", "Panic"} : ToolReturn(t, res) /\ UNCHANGED histVars
    \/ \E t \in ToolIds : Signal(t) /\ UNCHANGED histVars
    \/ ResultsNone /\ UNCHANGED histVars
    \/ ResultsFirst /\ UNCHANGED histVars
    \/ ResultsMore /\ UNCHANGED histVars
    \/ ResultsEnd /\ UNCHANGED histVars

SpecRace == InitRun /\ [][NextRace]_vars

\* The step in which the closure of transpile leaves with the given outcome.
Offers(outcome) ==
    /\ Len(pass'.offers) = Len(pass.offers) + 1
    /\ pass'.offers[Len(pass'.offers)].outcome = outcome

\* Some tool holds a live Edit.
EditAlive == \E e \in EditIds : edits[e].live

\* C18 as stated: of two tools that declare the same id, the one offered
\* second gets IdInUse while the first is in flight, so a tool is spawned only
\* when no other invocation is in flight.
C18_Original ==
    [][Offers("Spawned") => invocations = {}]_vars

\* C18, amended: of two tools that declare the same id of the IR, the second
\* gets IdInUse exactly while the Edit of the first is alive, and never
\* UnknownId; it is then returned to the queue and no worker is started. It
\* is spawned only after the first one's Edit has been applied or dropped,
\* with the Organizer's current IR as its snapshot, which holds the first
\* tool's commit if there was one; the two never hold Edits at the same time.
C18_InUseRace ==
    /\ [](/\ Cardinality({e \in EditIds : edits[e].live}) <= 1
          /\ Cardinality({t \in ToolIds : worker[t].pc = "run"}) <= 1
          /\ RaceWrites \subseteq DOMAIN IR(Drv)
          /\ NewEditOutcome(IR(Drv), in_use[Drv], RaceWrites) =
                IF EditAlive THEN "IdInUse" ELSE "Ok")
    /\ [][/\ Offers("IdInUse") =>
               /\ EditAlive
               /\ invocations # {}
               /\ queue' = Append(queue, Head(taken))
               /\ UNCHANGED <<worker, invocations, in_use, edits, tool_run_counts>>
          /\ Offers("Spawned") =>
               LET u == Head(taken)
               IN  /\ worker'[u].pc = "run"
                   /\ worker'[u].mw = RaceWrites
                   /\ heap[worker'[u].snap] = IR(Drv)
                   /\ \A t \in ToolIds \ {u} :
                         \/ worker[t].pc = "idle"
                         \/ /\ worker[t].out = "Err"
                            /\ worker[t].edit = 0
                            /\ commits[Drv] = <<>>
                         \/ /\ worker[t].out = "Ok"
                            /\ worker[t].pc = "joined"
                            /\ Len(commits[Drv]) = 1
                            /\ \A id \in DOMAIN commits[Drv][1] :
                                  heap[worker'[u].snap][id] = commits[Drv][1][id]]_vars

\* The second tool is spawned after it was refused for the id in use and the
\* first tool's write of that id was committed; its snapshot holds the write.
C18_Witness ==
    /\ worker["t1"].pc = "joined"
    /\ worker["t1"].out = "Ok"
    /\ worker["t2"].pc = "run"
    /\ worker["t2"].mw = RaceWrites
    /\ Len(commits[Drv]) = 1
    /\ 1 \in DOMAIN commits[Drv][1]
    /\ heap[worker["t2"].snap][1] = ToolRepr("t1")
    /\ tool_run_counts["t2"] = 1

\* C19: while the tools of a pass are offered, the snapshot might_write is
\* given is the Organizer's current IR and no commit happens; the run of a
\* spawned tool is handed that same snapshot.
C19_SnapshotAtSpawn ==
    /\ [](Offered => /\ snapshot = org_ir[Drv]
                     /\ snapshot \in DOMAIN heap
                     /\ heap[snapshot] = IR(Drv))
    /\ [][/\ Offered =>
               /\ commits' = commits
               /\ org_ir' = org_ir
               /\ ir_version' = ir_version
               /\ heap'[org_ir[Drv]] = heap[org_ir[Drv]]
               /\ snapshot' = snapshot \/ dpc' = "failed"
          /\ Offers("Spawned") =>
               LET u == Head(taken)
               IN  /\ worker[u].pc = "idle"
                   /\ worker'[u].pc = "run"
                   /\ worker'[u].snap = snapshot
                   /\ worker'[u].snap = org_ir'[Drv]
                   /\ heap'[worker'[u].snap] = IR(Drv)]_vars

\* A tool has been spawned in a later pass, after the other tool's commit
\* changed the IR: its snapshot is the new IR.
C19_Witness ==
    /\ worker["t2"].pc = "run"
    /\ worker["t1"].pc = "joined"
    /\ ir_version = 1
    /\ worker["t2"].snap = org_ir[Drv]
    /\ heap[worker["t2"].snap] # ir0[Drv]
    /\ dpc = "pass"

\* The sets a tool can declare that hold an id that is not in the IR.
UnknownSets == {mw \in SUBSET (1..highest_id) : ~(mw \subseteq DOMAIN IR(Drv))}

\* C20: a tool that declares an id that is not in the IR is refused with
\* UnknownId, whatever is in use; the refusal starts no worker, opens no run,
\* creates no Edit, marks no id in use and does not queue the tool again, and
\* the pass goes on with the tools behind it. No tool ever enters the
\* scheduler again once it has left it.
C20_UnknownIdDropped ==
    /\ [](\A mw \in UnknownSets :
             NewEditOutcome(IR(Drv), in_use[Drv], mw) = "UnknownId")
    /\ [](\A i \in DOMAIN pass.offers :
             pass.offers[i].outcome = "UnknownId" =>
                 /\ pass.offers[i].tool \notin Range(queue) \cup Range(taken)
                 /\ pass.offers[i].tool \notin invocations
                 /\ worker[pass.offers[i].tool].pc = "idle")
    /\ [][/\ Offers("UnknownId") =>
               /\ UnknownSets # {}
               /\ UNCHANGED <<worker, invocations, chan, in_use, edits,
                              tool_run_counts, queue, heap, org_ir, ir_version>>
               /\ taken' = Tail(taken)
               /\ dpc' = "pass"
          /\ Range(queue') \cup Range(taken') \subseteq Range(queue) \cup Range(taken)]_vars

\* The first tool of a pass was refused with UnknownId and the tool behind it
\* was spawned in the same pass and is running.
C20_Witness ==
    /\ OfferedWith("UnknownId") = <<"t1">>
    /\ OfferedWith("Spawned") = <<"t2">>
    /\ worker["t1"].pc = "idle"
    /\ worker["t2"].pc = "run"
    /\ "t1" \notin Range(queue)
    /\ in_use[Drv] = worker["t2"].mw

(***************************************************************************)
(* The persisted IR versions                                               *)
(***************************************************************************)

\* What can happen to the calls report_ir_version makes: all succeed,
\* create_dir fails, materialize fails for one id, writing the index fails.
PersistOutcomes == {"ok", "create_dir", "materialize", "index"}

\* Mutant: the snapshot handed to report_ir_version is taken before apply_edit.
ReportedSnapshot_Stale(before, after) == before

\* process_tool_results, lines 69-70: &edit_organizer.snapshot(), after the
\* Edit has been applied.
ReportedSnapshot(before, after) == after

\* report_ir_version: what is in ir/<version> after the call. A failed
\* create_dir returns at once; a failed materialize skips that id; a failed
\* write leaves no index.
IrVersionDir(version, snap, io, lost) ==
    [version |-> version,
     io |-> io,
     created |-> io # "create_dir",
     ir |-> IF io = "create_dir" THEN EmptyIR
            ELSE IF io = "materialize" THEN [id \in DOMAIN snap \ {lost} |-> snap[id]]
            ELSE snap,
     index |-> io \in {"ok", "materialize"}]

\* process_tool_results, lines 68-70: after a successful apply_edit the new
\* version is reported; nothing else calls report_ir_version.
ReportIrVersion ==
    IF ir_version' # ir_version
    THEN \E io \in PersistOutcomes, lost \in DOMAIN IR(Drv)' :
            /\ io # "materialize" => lost = CHOOSE id \in DOMAIN IR(Drv)' : TRUE
            /\ ir_dir' = ir_dir \cup
                  {IrVersionDir(ir_version', ReportedSnapshot(IR(Drv), IR(Drv)'), io, lost)}
    ELSE ir_dir' = ir_dir

\* transpile with the `ir` directory of the diagnostics recorded.
NextPersist ==
    \/ LoopTop /\ UNCHANGED histVars
    \/ OfferNotRunnable /\ UNCHANGED histVars
    \/ OfferTryAgain /\ UNCHANGED histVars
    \/ \E mw \in SUBSET (1..highest_id) : SpawnUnknownId(mw) /\ UNCHANGED histVars
    \/ \E mw \in SUBSET (1..highest_id) : SpawnIdInUse(mw) /\ UNCHANGED histVars
    \/ \E mw \in SUBSET (1..highest_id) : SpawnIoError(mw) /\ UNCHANGED histVars
    \/ \E mw \in SUBSET (1..highest_id) : SpawnOk(mw) /\ UNCHANGED histVars
    \/ \E t \in ToolIds, id \in 1..highest_id : ToolWrite(t, id) /\ UNCHANGED histVars
    \/ \E t \in ToolIds : ToolAdd(t) /\ UNCHANGED histVars
    \/ \E t \in ToolIds : ToolNewId(t) /\ UNCHANGED histVars
    \/ \E t \in ToolIds, res \in {"Ok", "Err", "Panic"} : ToolReturn(t, res) /\ UNCHANGED histVars
    \/ \E t \in ToolIds : Signal(t) /\ UNCHANGED histVars
    \/ ResultsNone /\ UNCHANGED histVars
    \/ ResultsFirst /\ ReportIrVersion /\ UNCHANGED <<tool_runs, pass, logging, lookup>>
    \/ ResultsMore /\ ReportIrVersion /\ UNCHANGED <<tool_runs, pass, logging, lookup>>
    \/ ResultsEnd /\ UNCHANGED histVars

SpecPersist == InitRun /\ [][NextPersist]_vars

\* The step in which start_tool_run failed: a run number was taken and no
\* worker was started.
StartToolRunFails == tool_run_counts' # tool_run_counts /\ worker' = worker

\* The step in which report_ir_version met an I/O failure.
ReportIrVersionFails ==
    \E r \in ir_dir' \ ir_dir : r.io # "ok"

\* C21 as stated: an I/O failure in start_tool_run and an I/O failure in
\* report_ir_version each stop the driver loop with an error.
C21_Original ==
    [][(StartToolRunFails \/ ReportIrVersionFails) => dpc' = "failed"]_vars

\* C21, amended: an I/O failure in start_tool_run stops the driver loop with
\* an error, for good and without starting a worker or leaving an id in use
\* for the refused tool; an I/O failure in report_ir_version is not seen by
\* the driver: the commit and the new IR version stand and the loop goes on
\* draining completions.
C21_IoErrors ==
    [][/\ StartToolRunFails =>
            /\ dpc = "pass" /\ dpc' = "failed"
            /\ taken' = <<>>
            /\ UNCHANGED <<invocations, ir_version, commits, queue, edits>>
            /\ in_use'[Drv] = in_use[Drv]
       /\ dpc' = "failed" => (StartToolRunFails \/ dpc = "failed")
       /\ dpc = "failed" =>
            UNCHANGED <<dpc, queue, taken, invocations, ir_version, commits, ir_dir,
                        tool_run_counts>>
       /\ ReportIrVersionFails =>
            /\ dpc' = "drain"
            /\ ir_version' = ir_version + 1
            /\ Len(commits'[Drv]) = Len(commits[Drv]) + 1
            /\ IR(Drv)' = ApplyWrites(IR(Drv), commits'[Drv][Len(commits'[Drv])])]_vars

\* The loop has ended normally although the directory of version 1 could not
\* be created; version 2 was persisted.
C21_Witness ==
    /\ dpc = "done"
    /\ ir_version = 2
    /\ \E r \in ir_dir : r.version = 1 /\ r.io = "create_dir"
    /\ \E r \in ir_dir : r.version = 2 /\ r.io = "ok"

(***************************************************************************)
(* Who writes the IR                                                       *)
(***************************************************************************)

\* The IR after the first k commits of the driver's Organizer.
RECURSIVE IrAfter(_)
IrAfter(k) ==
    IF k = 0 THEN ir0[Drv] ELSE ApplyWrites(IrAfter(k - 1), commits[Drv][k])

\* The snapshots somebody holds: transpile's local and the workers'.
HeldSnapshots ==
    {h \in {snapshot} \cup {worker[t].snap : t \in ToolIds} : h # 0}

\* C22: the IR changes only in the step of process_tool_results that handles
\* the completion of a tool that returned its Edit, and it then holds the
\* pending writes of that Edit; no step changes the IR behind a snapshot that
\* stays held, and every held snapshot is the IR as it was after some number of
\* commits, so the pending writes of a tool that runs or has finished are in
\* no snapshot before its completion has been handled.
C22_SingleWriter ==
    /\ [](/\ IR(Drv) = IrAfter(Len(commits[Drv]))
          /\ \A h \in HeldSnapshots :
                /\ h \in DOMAIN heap
                /\ \E k \in 0..Len(commits[Drv]) : heap[h] = IrAfter(k))
    /\ [][/\ \A h \in HeldSnapshots \cap HeldSnapshots' :
                h \in DOMAIN heap' /\ heap'[h] = heap[h]
          /\ (IR(Drv)' # IR(Drv) \/ commits' # commits) =>
                \E t \in ToolIds :
                   /\ Handles(t)
                   /\ dpc \in {"pass", "drain"} /\ dpc' = "drain"
                   /\ worker[t].out = "Ok"
          /\ \A t \in ToolIds :
                (Handles(t) /\ worker[t].out = "Ok") =>
                   LET w == edits[worker[t].edit].writable
                   IN  /\ commits'[Drv] = Append(commits[Drv], Pending(w))
                       /\ \A id \in DOMAIN w :
                             w[id] # None => /\ id \in DOMAIN IR(Drv)'
                                             /\ IR(Drv)'[id] = w[id]
                       /\ \A id \in DOMAIN IR(Drv)' :
                             (id \notin DOMAIN w \/ w[id] = None) =>
                                 /\ id \in DOMAIN IR(Drv)
                                 /\ IR(Drv)'[id] = IR(Drv)[id]]_vars

\* A running tool still holds the snapshot from before the other tool's
\* commit, which wrote an id of that snapshot and added one: the old snapshot
\* shows neither, the IR shows both, and the running tool has a write pending.
C22_Witness ==
    /\ worker["t2"].pc = "run"
    /\ worker["t1"].pc = "joined"
    /\ Len(commits[Drv]) = 1
    /\ heap[worker["t2"].snap] = ir0[Drv]
    /\ \E id \in DOMAIN ir0[Drv] : IR(Drv)[id] # ir0[Drv][id]
    /\ DOMAIN IR(Drv) # DOMAIN ir0[Drv]
    /\ \E id \in DOMAIN edits[worker["t2"].edit].writable :
          edits[worker["t2"].edit].writable[id] # None

(***************************************************************************)
(* Logging: the tracing dispatchers and the messages files                 *)
(***************************************************************************)

MaxEvents == 3
MaxReporters == 2

\* The dispatcher a thread's events go to: the innermost guard that is alive
\* on the thread (tracing's set_default is per thread).
CurrentDispatch(stack) == IF stack = <<>> THEN None ELSE stack[Len(stack)]

\* Mutant: the dispatch of a run without the layer for the global file.
Route_RunOnly(stack) ==
    IF stack = <<>> THEN {}
    ELSE IF CurrentDispatch(stack) = 0 THEN {0}
    ELSE {CurrentDispatch(stack)}

\* Mutant: the Collector's dispatcher installed for every thread.
Route_GlobalDefault(stack) ==
    IF stack = <<>> THEN {0}
    ELSE IF CurrentDispatch(stack) = 0 THEN {0}
    ELSE {CurrentDispatch(stack), 0}

\* The files an event reaches. Collector::initialize, lines 102-106: the
\* global messages file; ToolReporter::new, lines 56-69: the run's messages
\* file and the global one; no dispatcher, no file.
Route(stack) ==
    IF stack = <<>> THEN {}
    ELSE IF CurrentDispatch(stack) = 0 THEN {0}
    ELSE {CurrentDispatch(stack), 0}

\* The process before Collector::initialize.
InitLog == InitDiag

logFrame == <<idVars, orgVars, runVars, tool_runs, pass, ir_dir, lookup>>

\* The thread is not blocked inside Collector::diagnostics.
Awake(th) == ~(th = "main" /\ logging.collector = "waiting")

\* Arc::strong_count of the Shared: the Reporters and, until it is dropped or
\* diagnostics is called, the Collector.
SharedCount(l) == l.reporters + (IF l.collector = "alive" THEN 1 ELSE 0)

\* Mutant: the Diagnostics are sent as soon as the Collector lets go.
SharedDropped_CollectorOnly(l) == l.collector # "alive"

\* The last Arc of the Shared is gone.
SharedDropped(l) == SharedCount(l) = 0

\* An Arc of the Shared has been dropped, leaving l: with the last one the
\* Shared is dropped, and Drop for Shared sends the Diagnostics.
DropArcOfShared(l) == [l EXCEPT !.sent = @ \/ SharedDropped(l)]

\* Collector::initialize on the main thread: set_default installs the
\* dispatcher that writes the global messages file.
CollectorInitialize ==
    /\ logging.collector = "none"
    /\ logging' = [logging EXCEPT !.collector = "alive",
                                  !.dispatch["main"] = Append(@, 0)]
    /\ UNCHANGED logFrame

\* Collector::reporter, or Reporter::clone.
NewReporter ==
    /\ logging.collector = "alive" \/ logging.reporters > 0
    /\ logging.reporters < MaxReporters
    /\ logging' = [logging EXCEPT !.reporters = @ + 1]
    /\ UNCHANGED logFrame

\* A Reporter is dropped.
DropReporter ==
    /\ logging.reporters > 0
    /\ logging' = DropArcOfShared([logging EXCEPT !.reporters = @ - 1])
    /\ UNCHANGED logFrame

\* Reporter::start_tool_run succeeds: the run's directory and messages file
\* exist and a ToolReporter is handed out.
LogStartToolRun ==
    /\ logging.reporters > 0
    /\ logging.started + 1 \in LogRuns
    /\ logging' = [logging EXCEPT !.started = @ + 1]
    /\ UNCHANGED logFrame

\* ToolReporter::setup_thread_logger on thread th, for run r.
SetupThreadLogger(th, r) ==
    /\ Awake(th)
    /\ r <= logging.started
    /\ Len(logging.dispatch[th]) < 2
    /\ logging' = [logging EXCEPT !.dispatch[th] = Append(@, r)]
    /\ UNCHANGED logFrame

\* The innermost ThreadGuard of thread th is dropped.
DropThreadGuard(th) ==
    /\ Awake(th)
    /\ logging.dispatch[th] # <<>>
    /\ CurrentDispatch(logging.dispatch[th]) # 0
    /\ logging' = [logging EXCEPT !.dispatch[th] = SubSeq(@, 1, Len(@) - 1)]
    /\ UNCHANGED logFrame

\* info!(..) on thread th.
LogEvent(th) ==
    /\ Awake(th)
    /\ logging.logged["main"] + logging.logged["w1"] < MaxEvents
    /\ LET event == [thread |-> th, n |-> logging.logged[th] + 1]
           to == Route(logging.dispatch[th])
       IN  logging' = [logging EXCEPT
                          !.logged[th] = @ + 1,
                          !.files = [f \in LogFiles |->
                                        IF f \in to THEN Append(@[f], event) ELSE @[f]]]
    /\ UNCHANGED logFrame

\* drop(collector) on the main thread: the guard of initialize goes.
CollectorDrop ==
    /\ logging.collector = "alive"
    /\ CurrentDispatch(logging.dispatch["main"]) = 0
    /\ logging' = DropArcOfShared([logging EXCEPT !.collector = "dropped",
                                       !.dispatch["main"] = SubSeq(@, 1, Len(@) - 1)])
    /\ UNCHANGED logFrame

\* Collector::diagnostics, lines 125-128: the Collector's own Arc is dropped.
DiagnosticsCall ==
    /\ logging.collector = "alive"
    /\ CurrentDispatch(logging.dispatch["main"]) = 0
    /\ logging' = DropArcOfShared([logging EXCEPT !.collector = "waiting"])
    /\ UNCHANGED logFrame

\* Collector::diagnostics, lines 129-131: recv returns what Drop for Shared
\* sent when the last Arc went; the rest of the Collector is dropped.
DiagnosticsReturn ==
    /\ logging.collector = "waiting"
    /\ logging.sent
    /\ logging' = [logging EXCEPT !.collector = "returned",
                                  !.dispatch["main"] = SubSeq(@, 1, Len(@) - 1)]
    /\ UNCHANGED logFrame

NextLog ==
    \/ CollectorInitialize
    \/ NewReporter
    \/ DropReporter
    \/ LogStartToolRun
    \/ \E th \in LogThreads, r \in LogRuns : SetupThreadLogger(th, r)
    \/ \E th \in LogThreads : DropThreadGuard(th)
    \/ \E th \in LogThreads : LogEvent(th)
    \/ CollectorDrop
    \/ DiagnosticsCall
    \/ DiagnosticsReturn

SpecLog == InitLog /\ [][NextLog]_vars

\* The step in which thread th logs an event.
Logs(th) == logging'.logged[th] = logging.logged[th] + 1

\* The event of such a step.
Logged(th) == [thread |-> th, n |-> logging.logged[th] + 1]

\* The event logged in this step by th is appended to exactly the given files.
Reaches(th, fs) ==
    \A f \in LogFiles :
        logging'.files[f] = IF f \in fs THEN Append(logging.files[f], Logged(th))
                            ELSE logging.files[f]

\* The thread has the logger of a run installed.
HasRunLogger(th) ==
    logging.dispatch[th] # <<>> /\ CurrentDispatch(logging.dispatch[th]) # 0

\* The run whose logger is installed on the thread.
RunLogger(th) == CurrentDispatch(logging.dispatch[th])

\* In every file the events of one thread stand in the order they were logged.
InOrder ==
    \A f \in LogFiles : \A i, j \in DOMAIN logging.files[f] :
        (i < j /\ logging.files[f][i].thread = logging.files[f][j].thread) =>
            logging.files[f][i].n < logging.files[f][j].n

\* C23 as stated: with the logger of run R the event reaches R's file and the
\* global file; with no run logger and the Collector alive, the global file
\* only; before initialize and after the drop, no file.
C23_Original ==
    [][\A th \in LogThreads :
          Logs(th) =>
             IF logging.collector \in {"none", "dropped", "returned"} THEN Reaches(th, {})
             ELSE IF HasRunLogger(th) THEN Reaches(th, {RunLogger(th), 0})
             ELSE Reaches(th, {0})]_vars

\* C23, amended: an event logged on a thread with the logger of run R
\* reaches R's file and the global file and no other file, also after the
\* Collector was dropped; an event logged with no run logger reaches the
\* global file only if the thread is the one that initialized the Collector
\* and the Collector is alive, and otherwise no file; nothing but logging
\* writes a file, and the events of one thread stand in every file in the
\* order they were logged.
C23_LogRouting ==
    /\ [](/\ InOrder
          /\ \A th \in LogThreads :
                (\E i \in DOMAIN logging.dispatch[th] : logging.dispatch[th][i] = 0) <=>
                    (th = "main" /\ logging.collector \in {"alive", "waiting"}))
    /\ [][/\ \A th \in LogThreads :
               Logs(th) =>
                  IF HasRunLogger(th) THEN Reaches(th, {RunLogger(th), 0})
                  ELSE IF th = "main" /\ logging.collector = "alive" THEN Reaches(th, {0})
                  ELSE Reaches(th, {})
          /\ (\A th \in LogThreads : ~Logs(th)) => logging'.files = logging.files]_vars

\* The test `messages` in small: the main thread logged before and after a
\* worker with the logger of run 2 did; run 1's file is empty.
C23_Witness ==
    /\ logging.files[0] = <<[thread |-> "main", n |-> 1], [thread |-> "w1", n |-> 1],
                            [thread |-> "main", n |-> 2]>>
    /\ logging.files[2] = <<[thread |-> "w1", n |-> 1]>>
    /\ logging.files[1] = <<>>
    /\ logging.started = 2

(***************************************************************************)
(* Collector::diagnostics and the Reporter handles                         *)
(***************************************************************************)

\* The Collector, its Reporters and the threads' loggers, without the events.
NextCollect ==
    \/ CollectorInitialize
    \/ NewReporter
    \/ DropReporter
    \/ LogStartToolRun
    \/ \E th \in LogThreads, r \in LogRuns : SetupThreadLogger(th, r)
    \/ \E th \in LogThreads : DropThreadGuard(th)
    \/ CollectorDrop
    \/ DiagnosticsCall
    \/ DiagnosticsReturn

\* The thread that called diagnostics runs on once recv has a message.
FairCollect == InitLog /\ [][NextCollect]_vars /\ WF_vars(DiagnosticsReturn)

\* C24: the Diagnostics are sent exactly when the Collector has let go of the
\* Shared and no Reporter is left; Collector::diagnostics returns only then,
\* stays blocked while a Reporter is alive, whatever loggers the threads
\* hold, and does return once every Reporter has been dropped.
C24_DiagnosticsWaits ==
    /\ [](logging.sent <=>
             (logging.collector \in {"waiting", "dropped", "returned"}
                 /\ logging.reporters = 0))
    /\ [](logging.collector = "returned" => logging.reporters = 0)
    /\ [][/\ (logging.collector = "waiting" /\ logging'.collector # "waiting") =>
                logging'.collector = "returned" /\
                logging.reporters = 0 /\ logging'.reporters = 0
          /\ (logging.collector = "waiting" /\ logging.reporters > 0
                 /\ logging'.reporters > 0) =>
                logging'.collector = "waiting"]_vars
    /\ (logging.collector = "waiting" /\ logging.reporters = 0)
          ~> (logging.collector = "returned")

\* diagnostics has returned, with no Reporter left, while a worker thread
\* still holds the logger of a run.
C24_Witness ==
    /\ logging.collector = "returned"
    /\ logging.reporters = 0
    /\ logging.sent
    /\ logging.dispatch["main"] = <<>>
    /\ logging.dispatch["w1"] # <<>>
    /\ logging.started = 2

(***************************************************************************)
(* process_tool_results                                                    *)
(***************************************************************************)

\* transpile is about to call, or is blocked in, process_tool_results.
AtResults == dpc = "pass" /\ taken = <<>>

\* What process_tool_results can change.
resultsVars == <<invocations, chan, ir_version, commits, org_ir, in_use, edits, worker, queue>>

\* C25: called with no invocation in flight, process_tool_results returns
\* false at once and changes nothing; otherwise it stays blocked while no
\* worker has signalled, then handles the signalled completions one by one,
\* each once, by removing the invocation and joining its thread, returns true
\* only when no signal is left, and leaves the invocations that have not
\* signalled in flight.
C25_ProcessToolResults ==
    /\ [](/\ \A t \in ToolIds :
                /\ t \in invocations <=> worker[t].pc \in {"run", "closing", "sent"}
                /\ worker[t].pc = "sent" <=> t \in Range(chan)
          /\ \A i, j \in DOMAIN chan : chan[i] = chan[j] => i = j)
    /\ [][/\ (AtResults /\ invocations = {}) =>
                /\ dpc' = "done"
                /\ UNCHANGED resultsVars
          /\ (AtResults /\ invocations # {} /\ chan = <<>>) =>
                /\ dpc' = "pass"
                /\ UNCHANGED <<invocations, ir_version, commits, org_ir, queue>>
          /\ (dpc' = "drain" /\ dpc # "drain") =>
                /\ AtResults /\ invocations # {}
                /\ \E t \in ToolIds : Handles(t)
          /\ \A t \in ToolIds :
                Handles(t) =>
                    /\ dpc' = "drain"
                    /\ t = Head(chan) /\ chan' = Tail(chan)
                    /\ t \in invocations /\ invocations' = invocations \ {t}
                    /\ \A u \in ToolIds \ {t} : worker'[u] = worker[u]
          /\ (dpc = "drain" /\ dpc' # "drain") =>
                /\ dpc' = "loop"
                /\ chan = <<>>
                /\ \A t \in invocations : worker[t].pc \in {"run", "closing"}
                /\ UNCHANGED resultsVars
          /\ invocations' \subseteq invocations \/ dpc = "pass"]_vars

\* process_tool_results has returned true after handling the completion of
\* one tool while the other, which has not signalled, is still in flight.
C25_Witness ==
    /\ dpc = "loop"
    /\ worker["t1"].pc = "joined"
    /\ worker["t2"].pc = "run"
    /\ invocations = {"t2"}
    /\ chan = <<>>

\* The directory report_ir_version wrote for version k.
DirOfVersion(k) == CHOOSE r \in ir_dir : r.version = k

\* C26: the IR version is the number of commits; every commit was reported
\* once, under its own number, right after it was applied; what is persisted
\* under version k is taken from the IR as it was after the k-th commit, all
\* of it when no write failed, and never changes afterwards, also when
\* several completions are handled in one call of process_tool_results.
C26_VersionsInCommitOrder ==
    /\ [](/\ ir_version = Len(commits[Drv])
          /\ {r.version : r \in ir_dir} = 1..ir_version
          /\ \A r, q \in ir_dir : r.version = q.version => r = q
          /\ \A r \in ir_dir :
                /\ r.io = "ok" => r.ir = IrAfter(r.version)
                /\ r.io \in {"ok", "index"} <=> (r.created /\ r.ir = IrAfter(r.version))
                /\ \A id \in DOMAIN r.ir :
                      /\ id \in DOMAIN IrAfter(r.version)
                      /\ r.ir[id] = IrAfter(r.version)[id])
    /\ [][/\ ir_dir \subseteq ir_dir'
          /\ ir_version' \in {ir_version, ir_version + 1}
          /\ ir_version' = ir_version + 1 =>
                /\ Len(commits'[Drv]) = Len(commits[Drv]) + 1
                /\ \E r \in ir_dir' \ ir_dir :
                      /\ r.version = ir_version'
                      /\ r.io = "ok" => r.ir = IR(Drv)']_vars

\* Two completions were handled in one call of process_tool_results, which
\* still holds the snapshot of the initial IR: versions 1 and 2 are persisted
\* in full, each as the IR was after its own commit.
C26_Witness ==
    /\ dpc = "drain"
    /\ ir_version = 2
    /\ snapshot # 0 /\ heap[snapshot] = ir0[Drv]
    /\ \A r \in ir_dir : r.io = "ok"
    /\ DirOfVersion(1).ir = IrAfter(1)
    /\ DirOfVersion(2).ir = IrAfter(2)
    /\ IrAfter(1) # ir0[Drv]
    /\ IrAfter(2) # IrAfter(1)
    /\ IR(Drv) = IrAfter(2)

(***************************************************************************)
(* Claims about the Edit                                                   *)
(***************************************************************************)

\* The step is the call of the given operation that `last` then describes.
Calls(op) == budget' = budget - 1 /\ last'.op = op

\* C27: new_edit hands out an Edit whose writable set is the declared set,
\* with no pending write; try_write_id on an id of the writable set, declared
\* or got from new_id or add_representation, returns Ok and sets the pending
\* write of that id and of no other; on any other id it returns NotWritable
\* and leaves the Edit as it was.
C27_TryWriteId ==
    [][/\ (Calls("new_edit") /\ last'.result = "Ok") =>
             LET e == last'.edit
             IN  /\ ~edits[e].live /\ edits'[e].live
                 /\ DOMAIN edits'[e].writable = last'.ids
                 /\ \A id \in last'.ids : edits'[e].writable[id] = None
                 /\ Pending(edits'[e].writable) = EmptyIR
       /\ Calls("try_write_id") =>
             LET e == last'.edit
                 id == CHOOSE x \in last'.ids : TRUE
                 w == edits[e].writable
             IN  /\ last'.ids = {id}
                 /\ last'.result = IF id \in DOMAIN w THEN "Ok" ELSE "NotWritable"
                 /\ DOMAIN edits'[e].writable = DOMAIN w
                 /\ \A x \in DOMAIN w \ {id} : edits'[e].writable[x] = w[x]
                 /\ id \in DOMAIN w => edits'[e].writable[id] \in Reprs
                 /\ id \notin DOMAIN w => edits' = edits
                 /\ UNCHANGED <<in_use, heap, org_ir, commits>>]_vars

\* try_write_id has just succeeded on an id the Edit got from new_id and had
\* not declared.
C27_Witness ==
    /\ last.op = "try_write_id"
    /\ last.result = "Ok"
    /\ edits[last.edit].live
    /\ last.ids \cap edits[last.edit].declared = {}
    /\ edits[last.edit].declared # {}
    /\ \A id \in last.ids : edits[last.edit].writable[id] \in Reprs
    /\ \A id \in edits[last.edit].declared : edits[last.edit].writable[id] = None

(***************************************************************************)
(* Two tools, one writes what the other reads                              *)
(***************************************************************************)

\* The IR holds a representation of the kind tool t adds.
HasReprOf(ir, t) == \E id \in DOMAIN ir : ir[id] = ToolRepr(t)

\* The Edit of the running tool t holds no write yet.
NothingAdded(t) ==
    /\ worker[t].pc = "run"
    /\ Pending(edits[worker[t].edit].writable) = EmptyIR

\* t1 and t2 are queued in either order; the IR holds nothing of the kind t1
\* adds, and no id has been allocated besides those of the IR.
InitDep ==
    /\ highest_id = 2
    /\ idcall = [t \in IdThreads |-> IdleCall]
    /\ handed = [i \in 1..U64_MAX |-> IF i <= 2 THEN 1 ELSE 0]
    /\ requested = 2
    /\ aborted = FALSE
    /\ ir0 = InitIR
    /\ org_ir = [o \in Orgs |-> IF o = "A" THEN 1 ELSE 2]
    /\ heap = [h \in {1, 2} |-> IF h = 1 THEN ir0["A"] ELSE ir0["B"]]
    /\ in_use = [o \in Orgs |-> {}]
    /\ edits = [e \in EditIds |-> NoEdit]
    /\ snaps = [s \in SnapSlots |-> NoSnap]
    /\ commits = [o \in Orgs |-> <<>>]
    /\ last = NoCall
    /\ budget = 0
    /\ queue \in {<<"t1", "t2">>, <<"t2", "t1">>}
    /\ taken = <<>>
    /\ dpc = "loop"
    /\ snapshot = 0
    /\ invocations = {}
    /\ chan = <<>>
    /\ ir_version = 0
    /\ worker = [t \in ToolIds |-> NoWorker]
    /\ tool_run_counts = [t \in ToolIds |-> 0]
    /\ tool_runs = {}
    /\ pass = [start |-> <<>>, offers |-> <<>>, result |-> None]
    /\ ir_dir = {}
    /\ logging = NoLogging
    /\ lookup = NoLookup

\* One step of transpile: t1's might_write returns Runnable({}); t2's returns
\* TryAgain until the snapshot holds what t1 adds, and Runnable({}) then.
DriverDep ==
    \/ /\ LoopTop
       /\ pass' = [start |-> queue, offers |-> <<>>, result |-> None]
       /\ UNCHANGED <<tool_runs, ir_dir, logging, lookup>>
    \/ /\ Offered /\ Head(taken) = "t1"
       /\ SpawnOk({}) /\ Offer("Spawned")
    \/ /\ Offered /\ Head(taken) = "t2" /\ ~HasReprOf(heap[snapshot], "t1")
       /\ OfferTryAgain /\ Offer("TryAgain")
    \/ /\ Offered /\ Head(taken) = "t2" /\ HasReprOf(heap[snapshot], "t1")
       /\ SpawnOk({}) /\ Offer("Spawned")
    \/ ResultsNone /\ UNCHANGED histVars
    \/ ResultsFirst /\ ReportIrVersion /\ UNCHANGED <<tool_runs, pass, logging, lookup>>
    \/ ResultsEnd /\ UNCHANGED histVars

\* One step of the worker of tool t: run adds one representation and
\* returns Ok.
WorkerDep(t) ==
    \/ NothingAdded(t) /\ ToolAdd(t) /\ UNCHANGED histVars
    \/ /\ worker[t].pc = "run" /\ ~NothingAdded(t)
       /\ ToolReturn(t, "Ok") /\ UNCHANGED histVars
    \/ Signal(t) /\ UNCHANGED histVars

NextDep == DriverDep \/ \E t \in ToolIds : WorkerDep(t)

\* The scenario with every thread scheduled again and again.
FairDep ==
    /\ InitDep
    /\ [][NextDep]_vars
    /\ WF_vars(DriverDep)
    /\ \A t \in ToolIds : WF_vars(WorkerDep(t))

\* The directories under steps/ after the runs counted so far.
StepsDirs ==
    UNION {{RunDir(t, n) : n \in 1..tool_run_counts[t]} : t \in ToolIds}

\* C28: in either queue order the loop ends, with what t1 and t2 add in the
\* IR, t1's commit first, IR version 2, an empty queue and the runs t1_001
\* and t2_001; t2 is spawned only in a pass that started after t1's commit,
\* and an offer answered with TryAgain takes no run number.
C28_Dependency ==
    /\ <>(dpc = "done")
    /\ [](dpc = "done" =>
             /\ ir_version = 2
             /\ Len(commits[Drv]) = 2
             /\ \E a, b \in DOMAIN IR(Drv) \ DOMAIN ir0[Drv] :
                   /\ a # b
                   /\ DOMAIN IR(Drv) = DOMAIN ir0[Drv] \cup {a, b}
                   /\ IR(Drv)[a] = ToolRepr("t1") /\ commits[Drv][1] = (a :> ToolRepr("t1"))
                   /\ IR(Drv)[b] = ToolRepr("t2") /\ commits[Drv][2] = (b :> ToolRepr("t2"))
             /\ \A id \in DOMAIN ir0[Drv] : IR(Drv)[id] = ir0[Drv][id]
             /\ queue = <<>>
             /\ tool_run_counts = [t \in ToolIds |-> 1]
             /\ StepsDirs = {"t1_001", "t2_001"})
    /\ [][/\ Offers("TryAgain") =>
               /\ Head(taken) = "t2"
               /\ ir_version = 0
               /\ tool_run_counts' = tool_run_counts
               /\ worker' = worker
          /\ (Offers("Spawned") /\ Head(taken) = "t2") =>
               /\ ir_version = 1
               /\ worker["t1"].pc = "joined"
               /\ HasReprOf(heap[worker'["t2"].snap], "t1")
               /\ OfferedWith("TryAgain") = <<>>
               /\ tool_run_counts["t2"] = 0 /\ tool_run_counts'["t2"] = 1]_vars

\* With t2 queued first: t2 was put off in the first pass, t1 has committed,
\* and t2 is running with a snapshot that holds what t1 added.
C28_Witness ==
    /\ worker["t2"].pc = "run"
    /\ worker["t1"].pc = "joined"
    /\ pass.start = <<"t2">>
    /\ ir_version = 1
    /\ tool_run_counts = [t \in ToolIds |-> 1]
    /\ HasReprOf(heap[worker["t2"].snap], "t1")
    /\ ~HasReprOf(ir0[Drv], "t1")

(***************************************************************************)
(* The in-use set and the live Edits                                       *)
(***************************************************************************)

\* The ids declared in might_write by the live Edits of Organizer o.
DeclaredLive(o) == UNION {edits[e].declared : e \in LiveEdits(o)}

\* C29: the in-use set of an Organizer is always the union of the sets its
\* live Edits declared in might_write. A new_edit that returns Ok adds its
\* whole might_write set, none of which was in use, in that one step; a
\* new_edit over known ids of which one is declared by a live Edit returns
\* IdInUse and changes nothing; applying or dropping an Edit removes exactly
\* the ids that Edit declared, from its own Organizer only, and the ids of
\* every other live Edit stay in use; no other call changes an in-use set.
C29_InUseIsDeclared ==
    /\ [](\A o \in Orgs : in_use[o] = DeclaredLive(o))
    /\ [][LET o == last'.org
              E == edits[last'.edit]
          IN  /\ (Calls("new_edit") /\ last'.result = "Ok") =>
                    /\ last'.ids \cap in_use[o] = {}
                    /\ in_use' = [in_use EXCEPT ![o] = @ \cup last'.ids]
                    /\ edits'[last'.edit].declared = last'.ids
              /\ (/\ Calls("new_edit")
                  /\ last'.ids \subseteq DOMAIN IR(o)
                  /\ last'.ids \cap DeclaredLive(o) # {}) =>
                    /\ last'.result = "IdInUse"
                    /\ in_use' = in_use /\ edits' = edits
              /\ (Calls("apply_edit") \/ Calls("drop")) =>
                    /\ in_use' = [in_use EXCEPT ![E.shared] = @ \ E.declared]
                    /\ ~edits'[last'.edit].live
                    /\ \A p \in Orgs : \A e \in LiveEdits(p) \ {last'.edit} :
                          /\ edits'[e] = edits[e]
                          /\ edits[e].declared \subseteq in_use'[p]
              /\ (budget' # budget /\ last'.op \notin {"new_edit", "apply_edit", "drop"}) =>
                    in_use' = in_use
         ]_vars

\* Two Edits of one Organizer were live, each with a declared id, and one of
\* them was just dropped or applied: the other one's id is still in use.
C29_Witness ==
    /\ last.op \in {"apply_edit", "drop"}
    /\ last.ids \cap DOMAIN ir0[last.org] # {}
    /\ \E e \in LiveEdits(last.org) :
          /\ edits[e].declared # {}
          /\ edits[e].declared = in_use[last.org]

(***************************************************************************)
(* A tool that replaces its Edit by another Edit of the same Organizer     *)
(***************************************************************************)

\* The live Edits that no worker holds: issued by the driver and on their way
\* to a tool.
Orphans == {e \in EditIds : edits[e].live /\ \A t \in ToolIds : worker[t].edit # e}

\* One tool is queued; the IR of the driver's Organizer holds ids 1 and 2.
InitSwap ==
    /\ highest_id = 2
    /\ idcall = [t \in IdThreads |-> IdleCall]
    /\ handed = [i \in 1..U64_MAX |-> IF i <= 2 THEN 1 ELSE 0]
    /\ requested = 2
    /\ aborted = FALSE
    /\ ir0 = InitIR
    /\ org_ir = [o \in Orgs |-> IF o = "A" THEN 1 ELSE 2]
    /\ heap = [h \in {1, 2} |-> IF h = 1 THEN ir0["A"] ELSE ir0["B"]]
    /\ in_use = [o \in Orgs |-> {}]
    /\ edits = [e \in EditIds |-> NoEdit]
    /\ snaps = [s \in SnapSlots |-> NoSnap]
    /\ commits = [o \in Orgs |-> <<>>]
    /\ last = NoCall
    /\ budget = 0
    /\ queue = <<"t1">>
    /\ taken = <<>>
    /\ dpc = "loop"
    /\ snapshot = 0
    /\ invocations = {}
    /\ chan = <<>>
    /\ ir_version = 0
    /\ worker = [t \in ToolIds |-> NoWorker]
    /\ tool_run_counts = [t \in ToolIds |-> 0]
    /\ tool_runs = {}
    /\ pass = NoPass
    /\ ir_dir = {}
    /\ logging = NoLogging
    /\ lookup = NoLookup

\* The driver, between spawn_tool and process_tool_results, takes a second
\* Edit from its Organizer (new_edit over might_write returns Ok), writes r
\* to the ids of `written`, adds a representation r if `add`, and sends the
\* Edit to the running tool.
IssueReplacement(might_write, written, r, add) ==
    /\ dpc = "pass" /\ taken = <<>>
    /\ invocations # {}
    /\ Orphans = {} /\ last = NoCall
    /\ written \subseteq might_write
    /\ NewEditOutcome(IR(Drv), in_use[Drv], might_write) = "Ok"
    /\ LET e == FreeEdit
           w == [id \in might_write |-> IF id \in written THEN r ELSE None]
       IN  /\ in_use' = [in_use EXCEPT ![Drv] = MarkInUse(in_use[Drv], might_write)]
           /\ IF add
              THEN /\ highest_id < MaxRunId
                   /\ highest_id' = WrappingAdd(highest_id, 1)
                   /\ handed' = [handed EXCEPT ![IdNew] = @ + 1]
                   /\ requested' = requested + 1
                   /\ edits' = [edits EXCEPT ![e] =
                                  [live |-> TRUE, shared |-> Drv,
                                   writable |-> Insert(w, IdNew, r),
                                   declared |-> might_write]]
              ELSE /\ UNCHANGED <<highest_id, handed, requested>>
                   /\ edits' = [edits EXCEPT ![e] =
                                  [live |-> TRUE, shared |-> Drv, writable |-> w,
                                   declared |-> might_write]]
    /\ UNCHANGED <<idcall, aborted>>
    /\ UNCHANGED runVars
    /\ UNCHANGED <<heap, org_ir, commits, orgFrame>>

\* Mutant: the Edit the tool was given is leaked instead of dropped.
ToolTakeReplacement_Leak(t) ==
    /\ worker[t].pc = "run"
    /\ Orphans # {}
    /\ LET e == worker[t].edit
           n == CHOOSE x \in Orphans : TRUE
       IN  /\ worker' = [worker EXCEPT ![t].edit = n]
           /\ last' = Call("replace", Drv, n, DOMAIN Pending(edits[e].writable), "Ok")
    /\ UNCHANGED <<in_use, edits>>
    /\ UNCHANGED <<queue, taken, dpc, snapshot, invocations, chan, ir_version,
                   tool_run_counts>>
    /\ UNCHANGED <<heap, org_ir, commits, snaps, ir0, budget, idVars>>

\* The tool, in run, receives the Edit and assigns it to *context.ir_edit:
\* the Edit it was given is dropped, which releases its ids, and the worker
\* goes on with the new one. `last` keeps the ids the dropped Edit had
\* written.
ToolTakeReplacement(t) ==
    /\ worker[t].pc = "run"
    /\ Orphans # {}
    /\ LET e == worker[t].edit
           n == CHOOSE x \in Orphans : TRUE
       IN  /\ in_use' = [in_use EXCEPT ![edits[e].shared] = Release(@, edits[e].writable)]
           /\ edits' = [edits EXCEPT ![e] = NoEdit]
           /\ worker' = [worker EXCEPT ![t].edit = n]
           /\ last' = Call("replace", Drv, n, DOMAIN Pending(edits[e].writable), "Ok")
    /\ UNCHANGED <<queue, taken, dpc, snapshot, invocations, chan, ir_version,
                   tool_run_counts>>
    /\ UNCHANGED <<heap, org_ir, commits, snaps, ir0, budget, idVars>>

\* tests::replaced_edit with any might_write set, any writes of the tool and
\* any replacement.
NextSwap ==
    \/ LoopTop /\ UNCHANGED histVars
    \/ \E mw \in SUBSET (1..highest_id) : SpawnOk(mw) /\ UNCHANGED histVars
    \/ \E mw \in SUBSET (1..highest_id), w \in SUBSET (1..highest_id),
          r \in Reprs, add \in BOOLEAN :
             IssueReplacement(mw, w, r, add) /\ UNCHANGED histVars
    \/ \E t \in ToolIds : ToolTakeReplacement(t) /\ UNCHANGED histVars
    \/ \E t \in ToolIds, id \in 1..highest_id : ToolWrite(t, id) /\ UNCHANGED histVars
    \/ \E t \in ToolIds : ToolAdd(t) /\ UNCHANGED histVars
    \/ \E t \in ToolIds : ToolNewId(t) /\ UNCHANGED histVars
    \/ \E t \in ToolIds, res \in {"Ok", "Err", "Panic"} : ToolReturn(t, res) /\ UNCHANGED histVars
    \/ \E t \in ToolIds : Signal(t) /\ UNCHANGED histVars
    \/ ResultsNone /\ UNCHANGED histVars
    \/ ResultsFirst /\ UNCHANGED histVars
    \/ ResultsEnd /\ UNCHANGED histVars

SpecSwap == InitSwap /\ [][NextSwap]_vars

\* C30: when process_tool_results handles a tool that replaced its Edit by
\* another Edit of the driver's Organizer and returned Ok, every pending write
\* of the replacement is in the IR afterwards and nothing else of the IR has
\* changed, so that no write of the Edit the tool was given is in it; the
\* version is bumped; and neither the ids the tool declared, nor those it had
\* written, nor those of the replacement are in use.
C30_ReplacedEdit ==
    [][(/\ dpc \in {"pass", "drain"} /\ chan # <<>> /\ chan' = Tail(chan)
        /\ worker[Head(chan)].out = "Ok"
        /\ last.op = "replace"
        /\ worker[Head(chan)].edit = last.edit) =>
          LET t == Head(chan)
              R == edits[last.edit]
              W == Pending(R.writable)
          IN  /\ R.shared = Drv
              /\ \A id \in DOMAIN W : id \in DOMAIN IR(Drv)' /\ IR(Drv)'[id] = W[id]
              /\ DOMAIN IR(Drv)' = DOMAIN IR(Drv) \cup DOMAIN W
              /\ \A id \in DOMAIN IR(Drv) \ DOMAIN W : IR(Drv)'[id] = IR(Drv)[id]
              /\ last.ids \cap DOMAIN W = {}
              /\ \A id \in last.ids :
                    IF id \in DOMAIN IR(Drv) THEN IR(Drv)'[id] = IR(Drv)[id]
                    ELSE id \notin DOMAIN IR(Drv)'
              /\ commits'[Drv] = Append(commits[Drv], W)
              /\ ir_version' = ir_version + 1
              /\ in_use'[Drv] \cap (worker[t].mw \cup last.ids \cup DOMAIN R.writable) = {}
              /\ in_use'[Drv] = {}
              /\ \A e \in EditIds : ~edits'[e].live
      ]_vars

\* The tool declared an id, wrote it and added a representation; its Edit
\* was replaced by one that wrote another id of the IR and added a
\* representation of its own; process_tool_results has committed the
\* replacement: the IR holds the replacement's two writes and neither write
\* of the tool, and nothing is in use.
C30_Witness ==
    /\ last.op = "replace"
    /\ worker["t1"].pc = "joined"
    /\ worker["t1"].out = "Ok"
    /\ ir_version = 1
    /\ \E a \in worker["t1"].mw, n \in last.ids \ DOMAIN ir0[Drv] :
          /\ a \in last.ids
          /\ IR(Drv)[a] = ir0[Drv][a]
          /\ n \notin DOMAIN IR(Drv)
    /\ \E b \in DOMAIN ir0[Drv], m \in DOMAIN IR(Drv) \ DOMAIN ir0[Drv] :
          /\ IR(Drv)[b] # ir0[Drv][b]
          /\ commits[Drv] = <<(b :> IR(Drv)[b]) @@ (m :> IR(Drv)[m])>>
    /\ in_use[Drv] = {}

(***************************************************************************)
(* Closing a tool run: ToolJoiner::join                                    *)
(***************************************************************************)

\* Cap on the ToolReporter clones and ThreadGuards one run hands to threads
\* of its own.
MaxHandles == 2

\* The tool, in run, clones its ToolReporter or sets up a thread logger for
\* a thread it spawned: one more Arc of the run's RunShared.
ToolShareReporter(t) ==
    /\ worker[t].pc = "run"
    /\ worker[t].handles < MaxHandles
    /\ worker' = [worker EXCEPT ![t].handles = @ + 1]
    /\ UNCHANGED <<queue, taken, dpc, snapshot, invocations, chan, ir_version,
                   tool_run_counts>>
    /\ UNCHANGED <<orgVars, idVars>>

\* A thread of the tool drops its ToolReporter clone or ThreadGuard, during
\* run or after run has returned.
DropRunHandle(t) ==
    /\ worker[t].pc \in {"run", "closing"}
    /\ worker[t].handles > 0
    /\ worker' = [worker EXCEPT ![t].handles = @ - 1]
    /\ UNCHANGED <<queue, taken, dpc, snapshot, invocations, chan, ir_version,
                   tool_run_counts>>
    /\ UNCHANGED <<orgVars, idVars>>

\* The driver loop with tools that share their reporter with other threads.
NextJoin ==
    \/ NextRun
    \/ \E t \in ToolIds : ToolShareReporter(t) /\ UNCHANGED histVars
    \/ \E t \in ToolIds : DropRunHandle(t) /\ UNCHANGED histVars

SpecJoin == InitRun /\ [][NextJoin]_vars

\* The worker of tool t puts its thread id on the completion channel.
Signals(t) == chan' = Append(chan, t)

LoopExits == dpc # "done" /\ dpc' = "done"

\* C32: in the step that leaves the loop no tool is running, nothing was
\* spawned in the pass that just ended, and that pass's snapshot is the IR
\* the loop ends with; every tool still queued was offered in that pass and
\* answered TryAgain, no tool of that pass was put off for an id in use, and
\* the queue is left as it is. Every offer of a pass is answered against a
\* snapshot that is the Organizer's current IR.
C32_ExitNothingSchedulable ==
    /\ [][LoopExits =>
             /\ invocations = {} /\ invocations' = {}
             /\ \A t \in ToolIds : worker[t].pc \in {"idle", "joined"}
             /\ OfferedWith("Spawned") = <<>>
             /\ snapshot = org_ir[Drv]
             /\ IR(Drv)' = heap[snapshot]
             /\ \A i \in DOMAIN queue :
                   \E j \in DOMAIN pass.offers :
                      /\ pass.offers[j].tool = queue[i]
                      /\ pass.offers[j].outcome = "TryAgain"
             /\ \A j \in DOMAIN pass.offers : pass.offers[j].outcome # "IdInUse"
             /\ queue' = queue
         ]_vars
    /\ [][\A o \in {"TryAgain", "IdInUse", "NotRunnable", "Spawned"} :
             Offers(o) => snapshot = org_ir[Drv] /\ snapshot' = snapshot]_vars

\* The loop has ended after two passes: in the first t1 was spawned and t2
\* answered TryAgain, t1 committed, and in the second t2 answered TryAgain
\* again, against the IR that holds t1's commit.
C32_Witness ==
    /\ dpc = "done"
    /\ pass.start = <<"t2">>
    /\ pass.offers = <<[tool |-> "t2", outcome |-> "TryAgain"]>>
    /\ queue = <<"t2">>
    /\ Len(commits[Drv]) = 1
    /\ IR(Drv) # ir0[Drv]

(***************************************************************************)
(* Where a tool is                                                         *)
(***************************************************************************)

\* How often tool t stands in the scheduler's queue or in the old queue the
\* current pass iterates over.
Occurrences(t) ==
    Cardinality({i \in DOMAIN queue : queue[i] = t}) +
    Cardinality({i \in DOMAIN taken : taken[i] = t})

Waiting(t) == Occurrences(t) > 0

InFlight(t) == t \in invocations

\* The tool was dropped or its run was joined.
Gone(t) == ~Waiting(t) /\ ~InFlight(t)

\* C33: a tool stands at most once in the queue, and never while it is in
\* flight; it is in flight exactly while its worker thread exists and is not
\* yet joined; a waiting tool has never been run, and no tool is run twice.
\* A tool that is gone stays gone, and a tool in flight is not queued again.
\* Run starts only for the tool being offered. A tool that answered
\* NotRunnable or declared an unknown id is gone after the offer; a tool
\* that spawn_tool gave back with IdInUse is appended to the queue, with no
\* worker started.
C33_ToolConservation ==
    /\ [](\A t \in ToolIds :
             /\ Occurrences(t) <= 1
             /\ ~(Waiting(t) /\ InFlight(t))
             /\ InFlight(t) <=> worker[t].pc \in {"run", "closing", "sent"}
             /\ Waiting(t) => worker[t].pc = "idle" /\ tool_run_counts[t] = 0
             /\ tool_run_counts[t] <= 1)
    /\ [][/\ \A t \in ToolIds :
                /\ Gone(t) => Gone(t)'
                /\ InFlight(t) => ~Waiting(t)'
                /\ (worker[t].pc # "run" /\ worker'[t].pc = "run") =>
                      /\ Offered /\ Head(taken) = t
                      /\ worker[t].pc = "idle"
                      /\ Occurrences(t) = 1
          /\ \A t \in ToolIds :
                (/\ Offers("NotRunnable") \/ Offers("UnknownId")
                 /\ Head(taken) = t) =>
                      /\ Gone(t)'
                      /\ worker' = worker
          /\ Offers("IdInUse") =>
                /\ queue' = Append(queue, Head(taken))
                /\ taken' = Tail(taken)
                /\ worker' = worker /\ invocations' = invocations
         ]_vars

\* t1 is in flight and t2, put off for an id in use, is back in the queue;
\* neither is in both places.
C33_Witness ==
    /\ pass.offers = <<[tool |-> "t1", outcome |-> "Spawned"],
                       [tool |-> "t2", outcome |-> "IdInUse"]>>
    /\ queue = <<"t2">>
    /\ taken = <<>>
    /\ invocations = {"t1"}
    /\ worker["t1"].pc = "run"
    /\ worker["t2"].pc = "idle"

(***************************************************************************)
(* The completion channel and the in-flight map                            *)
(***************************************************************************)

\* The workers that exist and were not yet handled by process_tool_results.
Unprocessed == {t \in ToolIds : worker[t].pc \in {"run", "closing", "sent"}}

\* process_tool_results takes a thread id from the channel.
Receives == chan # <<>> /\ chan' = Tail(chan)

\* C34: every thread id on the channel is that of an invocation in the
\* in-flight map, is there once, and was sent by a worker that has finished;
\* a worker that has signalled and is not yet handled has its id on the
\* channel; a worker signals once, and never again after it was handled; the
\* in-flight map holds exactly the workers that are running or have
\* signalled and are not yet handled; the id process_tool_results receives
\* is in the map, so `expect("missing invocation")` does not fail; and while
\* the driver waits in recv with nothing on the channel, a worker that has
\* not signalled yet exists.
C34_ChannelMatchesMap ==
    /\ [](/\ \A i \in DOMAIN chan : chan[i] \in invocations /\ worker[chan[i]].pc = "sent"
          /\ \A i, j \in DOMAIN chan : chan[i] = chan[j] => i = j
          /\ \A t \in ToolIds : worker[t].pc = "sent" => \E i \in DOMAIN chan : chan[i] = t
          /\ invocations = Unprocessed
          /\ Cardinality(invocations) = Cardinality(Unprocessed)
          /\ (dpc = "pass" /\ taken = <<>> /\ invocations # {} /\ chan = <<>>) =>
                \E t \in ToolIds : worker[t].pc \in {"run", "closing"})
    /\ [][/\ Receives =>
                /\ Head(chan) \in invocations
                /\ Head(chan) \notin invocations'
                /\ worker'[Head(chan)].pc = "joined"
          /\ \A t \in ToolIds :
                /\ Signals(t) => worker[t].pc = "closing" /\ worker'[t].pc = "sent"
                /\ worker[t].pc \in {"sent", "joined"} => ~Signals(t)
                /\ Len(chan') > Len(chan) => \E u \in ToolIds : Signals(u)
         ]_vars

\* Both workers have signalled and the driver has handled neither: both
\* thread ids are on the channel and both invocations are in the map.
C34_Witness ==
    /\ Len(chan) = 2
    /\ invocations = ToolIds
    /\ \A t \in ToolIds : worker[t].pc = "sent"
    /\ dpc = "pass" /\ taken = <<>>

(***************************************************************************)
(* The ids a tool declared, from its spawn to its commit                   *)
(***************************************************************************)

\* The driver loop with the IR snapshot each run was given (RunContext's
\* ir_snapshot) recorded in tool_runs.
NextGiven ==
    \/ LoopTop /\ UNCHANGED histVars
    \/ OfferNotRunnable /\ UNCHANGED histVars
    \/ OfferTryAgain /\ UNCHANGED histVars
    \/ \E mw \in SUBSET (1..highest_id) : SpawnUnknownId(mw) /\ UNCHANGED histVars
    \/ \E mw \in SUBSET (1..highest_id) : SpawnIdInUse(mw) /\ UNCHANGED histVars
    \/ \E mw \in SUBSET (1..highest_id) : SpawnIoError(mw) /\ UNCHANGED histVars
    \/ \E mw \in SUBSET (1..highest_id) :
          /\ SpawnOk(mw)
          /\ tool_runs' = tool_runs \cup
                {[tool |-> Head(taken), given |-> heap[CloneArc(snapshot)]]}
          /\ UNCHANGED <<pass, ir_dir, logging, lookup>>
    \/ \E t \in ToolIds, id \in 1..highest_id : ToolWrite(t, id) /\ UNCHANGED histVars
    \/ \E t \in ToolIds : ToolAdd(t) /\ UNCHANGED histVars
    \/ \E t \in ToolIds : ToolNewId(t) /\ UNCHANGED histVars
    \/ \E t \in ToolIds, res \in {"Ok", "Err", "Panic"} : ToolReturn(t, res) /\ UNCHANGED histVars
    \/ \E t \in ToolIds : Signal(t) /\ UNCHANGED histVars
    \/ ResultsNone /\ UNCHANGED histVars
    \/ ResultsFirst /\ UNCHANGED histVars
    \/ ResultsMore /\ UNCHANGED histVars
    \/ ResultsEnd /\ UNCHANGED histVars

SpecGiven == InitRun /\ [][NextGiven]_vars

\* The snapshot the run of tool t was given.
Given(t) == (CHOOSE r \in tool_runs : r.tool = t).given

\* Tool t holds its Edit: it was spawned and the Edit is neither applied nor
\* dropped.
HoldsEdit(t) == worker[t].edit # 0

\* process_tool_results applies the Edit of tool t in this step.
Commits(t) == Receives /\ Head(chan) = t /\ worker[t].out = "Ok"

\* C35: while a tool holds its Edit, the IR value at every id the Edit
\* declared equals the value in the snapshot the tool was given; no step
\* changes the IR at such an id except the step that applies that very
\* Edit, which finds the value of the snapshot there and leaves either that
\* value or the one the tool wrote; and no two live Edits declare the same
\* id.
C35_NoLostUpdate ==
    /\ [](\A t \in ToolIds : HoldsEdit(t) =>
             /\ edits[worker[t].edit].declared = worker[t].mw
             /\ \A id \in worker[t].mw :
                   /\ id \in DOMAIN IR(Drv)
                   /\ IR(Drv)[id] = Given(t)[id]
             /\ \A u \in ToolIds \ {t} :
                   HoldsEdit(u) => worker[u].mw \cap worker[t].mw = {})
    /\ [][\A t \in ToolIds : HoldsEdit(t) =>
             \A id \in worker[t].mw :
                /\ IR(Drv)'[id] # IR(Drv)[id] =>
                      /\ Commits(t)
                      /\ IR(Drv)'[id] = edits[worker[t].edit].writable[id]
                /\ Commits(t) =>
                      /\ IR(Drv)[id] = Given(t)[id]
                      /\ IR(Drv)'[id] =
                            IF edits[worker[t].edit].writable[id] = None
                            THEN Given(t)[id]
                            ELSE edits[worker[t].edit].writable[id]
         ]_vars

\* t1 declared id 1 and was given a snapshot taken before t2 committed a new
\* representation; t1 has written id 1 and returned, and its Edit waits to
\* be applied: the IR has changed since t1's snapshot, but not at id 1.
C35_Witness ==
    /\ worker["t1"].pc = "sent"
    /\ worker["t1"].out = "Ok"
    /\ HoldsEdit("t1")
    /\ 1 \in worker["t1"].mw
    /\ edits[worker["t1"].edit].writable[1] = ToolRepr("t1")
    /\ worker["t2"].pc = "joined"
    /\ Len(commits[Drv]) = 1
    /\ IR(Drv) # Given("t1")
    /\ IR(Drv)[1] = Given("t1")[1]

(***************************************************************************)
(* Commits of Edits that are live together                                 *)
(***************************************************************************)

\* The IR after apply_edit of an Edit with writable map a and then of one
\* with writable map b.
ApplyBoth(ir, a, b) == ApplyWrites(ApplyWrites(ir, a), b)

\* C36: two Edits of one Organizer that are live together can write no
\* common id, and applying them to the Organizer's IR in either order gives
\* the same IR; when one of them is applied, applying the other to the new
\* IR gives the IR of the opposite order, and the other Edit is left as it
\* was.
C36_CommitsCommute ==
    /\ [](\A o \in Orgs : \A e1, e2 \in LiveEdits(o) : e1 # e2 =>
             /\ DOMAIN edits[e1].writable \cap DOMAIN edits[e2].writable = {}
             /\ ApplyBoth(IR(o), edits[e1].writable, edits[e2].writable) =
                   ApplyBoth(IR(o), edits[e2].writable, edits[e1].writable))
    /\ [][\A o \in Orgs : \A e1 \in LiveEdits(o) :
             (Calls("apply_edit") /\ last' = Call("apply_edit", o, e1, last'.ids, "Ok")) =>
                \A e2 \in LiveEdits(o) \ {e1} :
                   /\ edits'[e2] = edits[e2]
                   /\ ApplyWrites(IR(o)', edits[e2].writable) =
                         ApplyBoth(IR(o), edits[e2].writable, edits[e1].writable)
         ]_vars

\* Two Edits of one Organizer are live, one with a write to an id of the IR
\* and one with a representation it added: each changes the IR, and both
\* orders give the same IR.
C36_Witness ==
    \E o \in Orgs : \E e1, e2 \in LiveEdits(o) :
       /\ e1 # e2
       /\ \E id \in DOMAIN IR(o) \cap DOMAIN edits[e1].writable :
             edits[e1].writable[id] \notin {None, IR(o)[id]}
       /\ \E id \in DOMAIN edits[e2].writable \ DOMAIN IR(o) :
             edits[e2].writable[id] # None
       /\ ApplyWrites(IR(o), edits[e1].writable) # ApplyWrites(IR(o), edits[e2].writable)
       /\ ApplyBoth(IR(o), edits[e1].writable, edits[e2].writable) =
             ApplyBoth(IR(o), edits[e2].writable, edits[e1].writable)

(***************************************************************************)
(* spawn_tool that fails                                                   *)
(***************************************************************************)

\* spawn_tool was called for the tool at the head of the pass with the given
\* might_write set and returned the given outcome.
SpawnCall(might_write, outcome) ==
    /\ tool_runs' = tool_runs \cup
          {[seq |-> Cardinality(tool_runs) + 1, tool |-> Head(taken),
            might_write |-> might_write, outcome |-> outcome]}
    /\ UNCHANGED <<pass, ir_dir, logging, lookup>>

\* The driver loop with every call of spawn_tool recorded in tool_runs.
NextSpawn ==
    \/ LoopTop /\ UNCHANGED histVars
    \/ OfferNotRunnable /\ UNCHANGED histVars
    \/ OfferTryAgain /\ UNCHANGED histVars
    \/ \E mw \in SUBSET (1..highest_id) : SpawnUnknownId(mw) /\ SpawnCall(mw, "UnknownId")
    \/ \E mw \in SUBSET (1..highest_id) : SpawnIdInUse(mw) /\ SpawnCall(mw, "IdInUse")
    \/ \E mw \in SUBSET (1..highest_id) : SpawnIoError(mw) /\ SpawnCall(mw, "IoError")
    \/ \E mw \in SUBSET (1..highest_id) : SpawnOk(mw) /\ SpawnCall(mw, "Ok")
    \/ \E t \in ToolIds, id \in 1..highest_id : ToolWrite(t, id) /\ UNCHANGED histVars
    \/ \E t \in ToolIds : ToolAdd(t) /\ UNCHANGED histVars
    \/ \E t \in ToolIds : ToolNewId(t) /\ UNCHANGED histVars
    \/ \E t \in ToolIds, res \in {"Ok", "Err", "Panic"} : ToolReturn(t, res) /\ UNCHANGED histVars
    \/ \E t \in ToolIds : Signal(t) /\ UNCHANGED histVars
    \/ ResultsNone /\ UNCHANGED histVars
    \/ ResultsFirst /\ UNCHANGED histVars
    \/ ResultsMore /\ UNCHANGED histVars
    \/ ResultsEnd /\ UNCHANGED histVars

SpecSpawn == InitRun /\ [][NextSpawn]_vars

\* The calls of spawn_tool made in this step.
SpawnCalls == tool_runs' \ tool_runs

\* C37: a call of spawn_tool that returns IdInUse, UnknownId or an I/O error
\* starts no worker and leaves the in-flight map, the channel, the IR, its
\* version, the Edits and the in-use set as they were, so that no id is in
\* use on behalf of the tool; IdInUse is returned only if an id of
\* might_write is in use, UnknownId only if one is not in the IR, and an I/O
\* error only when new_edit had succeeded, whose Edit has been dropped: a
\* new_edit over the same set would succeed again.
C37_FailedSpawn ==
    [][\A c \in SpawnCalls : c.outcome # "Ok" =>
          /\ worker' = worker
          /\ invocations' = invocations
          /\ chan' = chan
          /\ IR(Drv)' = IR(Drv)
          /\ org_ir' = org_ir
          /\ ir_version' = ir_version
          /\ commits' = commits
          /\ edits' = edits
          /\ in_use' = in_use
          /\ c.outcome = "IdInUse" => c.might_write \cap in_use[Drv] # {}
          /\ c.outcome = "UnknownId" => ~(c.might_write \subseteq DOMAIN IR(Drv))
          /\ c.outcome = "IoError" =>
                /\ c.might_write \subseteq DOMAIN IR(Drv)
                /\ c.might_write \cap in_use'[Drv] = {}
                /\ NewEditOutcome(IR(Drv)', in_use'[Drv], c.might_write) = "Ok"
                /\ dpc' = "failed"
      ]_vars

\* t1 is running with an id in use; spawn_tool for t2, which declared
\* another id, failed with an I/O error: only t1's id is in use and only t1
\* is in flight.
C37_Witness ==
    /\ dpc = "failed"
    /\ invocations = {"t1"}
    /\ worker["t2"] = NoWorker
    /\ \E c \in tool_runs :
          /\ c.tool = "t2" /\ c.outcome = "IoError"
          /\ c.might_write # {}
          /\ c.might_write \cap in_use[Drv] = {}
    /\ in_use[Drv] # {}
    /\ in_use[Drv] = worker["t1"].mw

(***************************************************************************)
(* Dir::get (fs/src/dir/mod.rs): the lookup of a path under a frozen Dir,  *)
(* one step per iteration of get_inner's main loop.                        *)
(***************************************************************************)
\* The looked-up path and the target of the symlink `a` together hold at
\* most MaxSize components.
MaxSize == 3

\* path.components().rev().map(Step::Component) for a path as written
\* (whether it starts with "/", and its segments).  Path::components yields
\* "/" first for an absolute path, then the segments; a `.` is normalised
\* away unless it is the first component of the path.  The steps are stored
\* right to left, as `remaining` is.
Steps(p) ==
    LET RECURSIVE DropCurDir(_)
        DropCurDir(segs) ==
            IF segs = <<>> THEN <<>>
            ELSE IF Head(segs) = "." THEN DropCurDir(Tail(segs))
            ELSE <<Head(segs)>> \o DropCurDir(Tail(segs))
        components ==
            IF p.abs THEN <<"/">> \o DropCurDir(p.segs)
            ELSE IF p.segs # <<>> /\ Head(p.segs) = "."
                 THEN <<".">> \o DropCurDir(Tail(p.segs))
                 ELSE DropCurDir(p.segs)
    IN  [i \in 1..Len(components) |->
            [kind |-> "Component", arg |-> components[Len(components) + 1 - i]]]

\* The frozen directory looked into. `self` holds the symlink a (its target
\* is the directory's parameter), b -> a/a and c -> b/b as in get_exponential,
\* the directory d and the file f; d holds a -> .. (get_basic's original_dir)
\* and a file f.
DirContents(target, dir) ==
    IF dir = "self"
    THEN [name \in {"a", "b", "c", "d", "f"} |->
            CASE name = "a" -> [kind |-> "Symlink", contents |-> target]
              [] name = "b" -> [kind |-> "Symlink",
                                contents |-> [abs |-> FALSE, segs |-> <<"a", "a">>]]
              [] name = "c" -> [kind |-> "Symlink",
                                contents |-> [abs |-> FALSE, segs |-> <<"b", "b">>]]
              [] name = "d" -> [kind |-> "Dir", contents |-> "d"]
              [] name = "f" -> [kind |-> "File", contents |-> "f"]]
    ELSE [name \in {"a", "f"} |->
            CASE name = "a" -> [kind |-> "Symlink",
                                contents |-> [abs |-> FALSE, segs |-> <<"..">>]]
              [] name = "f" -> [kind |-> "File", contents |-> "d/f"]]

\* Err(GetError::..), a value of Result<ResolvedEntry, GetError>.
Err(e) == [tag |-> "Err", val |-> e]

\* current.last().map(|p| p.dir).unwrap_or(self)
CurDirOf(current) ==
    IF current = <<>> THEN "self" ELSE current[Len(current)].dir
\* current.iter().map(|p| p.name).chain(once(name)).collect()
LinkPath(current, name) ==
    [i \in 1..Len(current) |-> current[i].name] \o <<name>>

\* The Save step's debug_assert!(cache.insert(symlink_path,
\* Some(current.clone())).is_some()): the macro evaluates its argument only
\* in a build with debug assertions on.  A cache value is <<>> for None and
\* <<current>> for Some(current).
CacheSave(debug_assertions, cache, symlink_path, current) ==
    IF debug_assertions
    THEN [k \in DOMAIN cache \cup {symlink_path} |->
            IF k = symlink_path THEN <<current>> ELSE cache[k]]
    ELSE cache

\* Entry::Vacant(entry) => entry.insert(None)
CacheBegin_Forget(cache, link_path) == cache
CacheBegin(cache, link_path) ==
    [k \in DOMAIN cache \cup {link_path} |->
        IF k = link_path THEN <<>> ELSE cache[k]]

\* The call get(path) before the first iteration, on the directory whose
\* symlink a points to target, in a build with or without debug assertions.
InitGet ==
    /\ InitId
    /\ ir0 = [o \in Orgs |-> EmptyIR]
    /\ org_ir = [o \in Orgs |-> IF o = "A" THEN 1 ELSE 2]
    /\ heap = [h \in {1, 2} |-> EmptyIR]
    /\ in_use = [o \in Orgs |-> {}]
    /\ edits = [e \in EditIds |-> NoEdit]
    /\ snaps = [s \in SnapSlots |-> NoSnap]
    /\ commits = [o \in Orgs |-> <<>>]
    /\ last = NoCall
    /\ budget = 0
    /\ queue = <<>>
    /\ taken = <<>>
    /\ dpc = "done"
    /\ snapshot = 0
    /\ invocations = {}
    /\ chan = <<>>
    /\ ir_version = 0
    /\ worker = [t \in ToolIds |-> NoWorker]
    /\ tool_run_counts = [n \in DiagNames |-> 0]
    /\ tool_runs = {}
    /\ pass = NoPass
    /\ ir_dir = {}
    /\ logging = NoLogging
    /\ LET Written(n) ==
               [abs : BOOLEAN, segs : [1..n -> {"a", "b", "c", "d", "f", ".", ".."}]]
           Size(p) == Len(p.segs) + (IF p.abs THEN 1 ELSE 0)
       IN  \E n \in 1..MaxSize, m \in 0..MaxSize, debug_assertions \in BOOLEAN :
             \E target \in Written(n), path \in Written(m) :
                /\ Size(target) + Size(path) <= MaxSize
                /\ lookup = [target |-> target, path |-> path,
                             debug_assertions |-> debug_assertions,
                             current |-> <<>>,
                             remaining |-> Steps(path),
                             cache |-> <<>>,
                             result |-> [tag |-> "Running", val |-> None],
                             steps |-> 0]

getFrame == <<idVars, orgVars, runVars, tool_runs, pass, ir_dir, logging>>

\* remaining.pop(): the step taken and what remains, or no step.
Pop ==
    LET n == Len(lookup.remaining)
    IN  IF n = 0
        THEN [step |-> [kind |-> "None", arg |-> None], rest |-> <<>>]
        ELSE [step |-> lookup.remaining[n],
              rest |-> SubSeq(lookup.remaining, 1, n - 1)]

\* cur_dir.contents.get(name) for the name popped.
EntryHere ==
    LET contents == DirContents(lookup.target, CurDirOf(lookup.current))
    IN  IF Pop.step.arg \in DOMAIN contents
        THEN contents[Pop.step.arg]
        ELSE [kind |-> "None", contents |-> None]
\* The step popped is Component::Normal(name) and the current directory
\* holds under that name an entry of this kind (or none).
Found(kind) ==
    /\ Pop.step.kind = "Component"
    /\ Pop.step.arg \notin {"/", ".", ".."}
    /\ EntryHere.kind = kind

\* One iteration of the main loop, which ends in `continue`, in `return` or
\* at the end of the body.
Iterate(current, remaining, cache, result) ==
    /\ lookup.result.tag = "Running"
    /\ lookup' = [lookup EXCEPT !.current = current, !.remaining = remaining,
                                !.cache = cache, !.result = result,
                                !.steps = @ + 1]
    /\ UNCHANGED getFrame

\* Step::Save(symlink_path)
StepSaveSymlink ==
    /\ Pop.step.kind = "Save"
    /\ Iterate(lookup.current, Pop.rest,
               CacheSave(lookup.debug_assertions, lookup.cache, Pop.step.arg,
                         lookup.current),
               lookup.result)

\* Component::Prefix(_) | Component::RootDir, Component::CurDir and
\* Component::ParentDir.
StepNonNormal ==
    /\ Pop.step.kind = "Component"
    /\ \/ /\ Pop.step.arg = "/"
          /\ Iterate(lookup.current, Pop.rest, lookup.cache, Err("LeavesDir"))
       \/ /\ Pop.step.arg = "."
          /\ Iterate(lookup.current, Pop.rest, lookup.cache, lookup.result)
       \/ /\ Pop.step.arg = ".."
          /\ IF lookup.current = <<>>
             THEN Iterate(lookup.current, Pop.rest, lookup.cache, Err("LeavesDir"))
             ELSE Iterate(SubSeq(lookup.current, 1, Len(lookup.current) - 1),
                          Pop.rest, lookup.cache, lookup.result)

\* Component::Normal(name) naming nothing, a directory or a file.
StepEntry ==
    \/ /\ Found("None")
       /\ Iterate(lookup.current, Pop.rest, lookup.cache, Err("NotFound"))
    \/ /\ Found("Dir")
       /\ Iterate(Append(lookup.current,
                         [dir |-> EntryHere.contents, name |-> Pop.step.arg]),
                  Pop.rest, lookup.cache, lookup.result)
    \/ /\ Found("File")
       /\ IF \E i \in DOMAIN Pop.rest : Pop.rest[i].kind = "Component"
          THEN Iterate(lookup.current, Pop.rest, lookup.cache, Err("NotADirectory"))
          ELSE Iterate(lookup.current, Pop.rest, lookup.cache,
                       [tag |-> "OkFile", val |-> EntryHere.contents])

\* Component::Normal(name) naming a symlink.
StepSymlink ==
    /\ Found("Symlink")
    /\ LET link_path == LinkPath(lookup.current, Pop.step.arg)
       IN  IF link_path \in DOMAIN lookup.cache
           THEN IF lookup.cache[link_path] = <<>>
                THEN Iterate(lookup.current, Pop.rest, lookup.cache,
                             Err("FilesystemLoop"))
                ELSE Iterate(lookup.cache[link_path][1], Pop.rest, lookup.cache,
                             lookup.result)
           ELSE Iterate(lookup.current,
                        Append(Pop.rest, [kind |-> "Save", arg |-> link_path])
                            \o Steps(EntryHere.contents),
                        CacheBegin(lookup.cache, link_path),
                        lookup.result)

\* After the loop: Ok(ResolvedEntry::Dir(cur_dir.clone()))
GetReturnsDir ==
    /\ lookup.result.tag = "Running"
    /\ Pop.step.kind = "None"
    /\ lookup' = [lookup EXCEPT
                    !.result = [tag |-> "OkDir", val |-> CurDirOf(lookup.current)]]
    /\ UNCHANGED getFrame

NextGet ==
    \/ StepSaveSymlink
    \/ StepNonNormal
    \/ StepEntry
    \/ StepSymlink
    \/ GetReturnsDir

SpecGet == InitGet /\ [][NextGet]_vars
\* get_inner is sequential code: an iteration that can run does run.
FairGet == SpecGet /\ WF_vars(NextGet)

\* ---- C38 ----
\* The contents of the symlink found at a direct path of the directory.
SymlinkAt(link_path) ==
    DirContents(lookup.target,
                IF Len(link_path) = 1 THEN "self" ELSE link_path[1])
        [link_path[Len(link_path)]].contents
\* The resolution of the symlink at link_path is in progress: it has been
\* expanded and its Save step has not been reached.
InProgress(link_path) ==
    \E i \in DOMAIN lookup.remaining :
        /\ lookup.remaining[i].kind = "Save"
        /\ lookup.remaining[i].arg = link_path
\* The iterations a lookup can take: one for each component of the path and,
\* for each symlink it has expanded, one for each component of the target
\* and one for the Save step.
RECURSIVE SumOver(_, _)
SumOver(S, f) ==
    IF S = {} THEN 0
    ELSE LET x == CHOOSE y \in S : TRUE IN f[x] + SumOver(S \ {x}, f)
StepBudget ==
    Len(Steps(lookup.path))
    + SumOver(DOMAIN lookup.cache,
              [k \in DOMAIN lookup.cache |-> Len(Steps(SymlinkAt(k))) + 1])
GetRunning == lookup.result.tag = "Running"
GetReturns(result) == GetRunning /\ lookup'.result = result
MeetsSymlink(link_path) ==
    GetRunning /\ Found("Symlink") /\ LinkPath(lookup.current, Pop.step.arg) = link_path
LinkPaths == {<<"a">>, <<"b">>, <<"c">>, <<"d", "a">>}

\* C38: Dir::get terminates for every path on every frozen directory: each
\* iteration consumes a step, and a lookup takes at most one step for each
\* component of the path plus, for each symlink it expands, one for each
\* component of the target and one to save it, a symlink being expanded at
\* most once.  An iteration that reaches a symlink whose resolution is in
\* progress returns FilesystemLoop; an absolute path, an absolute symlink
\* target and a `..` met in the Dir itself return LeavesDir; a file met
\* while components remain returns NotADirectory.
C38_GetTerminates ==
    /\ <>(~GetRunning)
    /\ [](lookup.steps <= StepBudget)
    /\ []((lookup.path.abs /\ ~GetRunning) => lookup.result = Err("LeavesDir"))
    /\ [][/\ \A k \in LinkPaths :
                /\ (MeetsSymlink(k) /\ InProgress(k))
                        => GetReturns(Err("FilesystemLoop"))
                /\ (MeetsSymlink(k) /\ k \in DOMAIN lookup.cache)
                        => lookup'.remaining = Pop.rest
                /\ (MeetsSymlink(k) /\ k \notin DOMAIN lookup.cache)
                        => /\ k \in DOMAIN lookup'.cache
                           /\ SymlinkAt(k).abs =>
                                lookup'.remaining[Len(lookup'.remaining)].arg = "/"
          /\ (GetRunning /\ Pop.step.kind = "Component" /\ Pop.step.arg = "/")
                => GetReturns(Err("LeavesDir"))
          /\ (GetRunning /\ Pop.step.kind = "Component" /\ Pop.step.arg = ".."
                /\ CurDirOf(lookup.current) = "self")
                => GetReturns(Err("LeavesDir"))
          /\ (GetRunning /\ Found("File")
                /\ \E i \in DOMAIN Pop.rest : Pop.rest[i].kind = "Component")
                => GetReturns(Err("NotADirectory"))
          /\ ~GetRunning => lookup' = lookup]_vars

\* A lookup has returned FilesystemLoop for a loop that runs through two
\* symlinks, after at least four iterations.
C38_Witness ==
    /\ lookup.result = Err("FilesystemLoop")
    /\ Cardinality(DOMAIN lookup.cache) >= 2
    /\ lookup.steps >= 4

\* ---- C39 ----
\* The symlink at link_path has been fully resolved earlier in this lookup:
\* it has been expanded and its Save step has been reached.
FullyResolved(link_path) ==
    link_path \in DOMAIN lookup.cache /\ ~InProgress(link_path)
\* The lookups of get_exponential: a -> . and the nested links b and c.
NestedLookup ==
    /\ lookup.target = [abs |-> FALSE, segs |-> <<".">>]
    /\ lookup.path \in {[abs |-> FALSE, segs |-> <<"b">>],
                        [abs |-> FALSE, segs |-> <<"c">>]}
\* C39: a symlink that was fully resolved earlier in the same lookup is, when
\* met again through the same direct path, not reported as a loop: the
\* lookup goes on from the target the cache holds for it, without expanding
\* the symlink again; with a -> ., b -> a/a and c -> b/b, get("b") and
\* get("c") return the Dir itself; and the iterations stay within one per
\* component of the path and of each expanded symlink's target, plus one per
\* expanded symlink.
C39_ResolvedFromCache ==
    /\ []((NestedLookup /\ ~GetRunning)
            => lookup.result = [tag |-> "OkDir", val |-> "self"])
    /\ [](lookup.steps <= StepBudget)
    /\ [][\A k \in LinkPaths :
            (MeetsSymlink(k) /\ FullyResolved(k))
            => /\ lookup'.result.tag = "Running"
               /\ lookup.cache[k] = <<lookup'.current>>
               /\ lookup'.remaining = Pop.rest
               /\ lookup'.cache = lookup.cache]_vars

\* The same of the lookups of a build with debug assertions on, as the
\* tests are built.
C39_WithDebugAssertions ==
    /\ []((lookup.debug_assertions /\ NestedLookup /\ ~GetRunning)
            => lookup.result = [tag |-> "OkDir", val |-> "self"])
    /\ [][\A k \in LinkPaths :
            (lookup.debug_assertions /\ MeetsSymlink(k) /\ FullyResolved(k))
            => /\ lookup'.result.tag = "Running"
               /\ lookup.cache[k] = <<lookup'.current>>
               /\ lookup'.remaining = Pop.rest
               /\ lookup'.cache = lookup.cache]_vars

\* get("c") with a -> . returned the Dir itself in nine iterations.
C39_DebugWitness ==
    /\ lookup.debug_assertions
    /\ lookup.target = [abs |-> FALSE, segs |-> <<".">>]
    /\ lookup.path = [abs |-> FALSE, segs |-> <<"c">>]
    /\ lookup.result = [tag |-> "OkDir", val |-> "self"]
    /\ lookup.steps = 9

=============================================================================
